---- MODULE Spec2Model ----
(***************************************************************************)
(* Deduplication engine and file-record store of photo_ingest.             *)
(*                                                                         *)
(*   deduplication.py  DeduplicationEngine: check_duplicate,               *)
(*                     calculate_hashes, store_file_record,                *)
(*                     flush_pending_records, _check_hash_duplicates       *)
(*   database.py       DatabaseManager: file_records table, UNIQUE hash,   *)
(*                     INSERT OR REPLACE, one connection per operation     *)
(*                                                                         *)
(* A file is a byte sequence with an integer mtime (int(st_mtime), whole   *)
(* seconds).  SHA-256 is modelled as an injective fold over the bytes      *)
(* (collision freedom is assumed, as the code assumes it); the perceptual  *)
(* hash is a lossy fingerprint of the content.  A store operation that     *)
(* writes is modelled statement by statement on its own connection:        *)
(* execute, ..., commit, with a storage error possible before the commit.  *)
(*                                                                         *)
(* Columns of file_records that no operation modelled here reads           *)
(* (id, dest_path, raw_backup_path, dates, camera/lens/device, operation   *)
(* type, status) are left out of the rows.                                 *)
(***************************************************************************)
EXTENDS Integers, Sequences, FiniteSets, TLC

(* ------------------------------ bounds -------------------------------- *)

\* The clock runs over the whole seconds 0..MaxTime.
MaxTime == 1

\* config.batch_size is drawn from 1..MaxBatch.
MaxBatch == 2

\* At most MaxStores store_file_record calls are accepted in one run.
MaxStores == 3

(* ------------------------------ domains ------------------------------- *)

NoPath == [stem |-> "", suffix |-> ""]

\* Candidate files: one still image and one file that is not an image.
Paths == {[stem |-> "x", suffix |-> ".jpg"], [stem |-> "y", suffix |-> ".txt"]}

\* File contents: two of one byte, one of two bytes.
Contents == {<<0>>, <<1>>, <<0, 1>>}

\* The files other programs rewrite between scans; the rest keep their bytes.
Rewritten == {p \in Paths : p.stem = "x"}

\* The bytes of the files nobody rewrites.
StaticContent == <<1>>

NoHash == "None"

StatusNew == "new"

StatusDuplicate == "duplicate"

StatusSimilar == "similar"

(* ------------------------------ hashing ------------------------------- *)

\* hashlib.sha256 fed the bytes in order: hexdigest of update(b1)...update(bn).
\* The running digest is a bijective base-3 numeral of the bytes read, so
\* distinct contents have distinct digests.
RECURSIVE Sha256(_)
Sha256(bytes) ==
    IF bytes = <<>> THEN 0
    ELSE 3 * Sha256(SubSeq(bytes, 1, Len(bytes) - 1)) + bytes[Len(bytes)] + 1

\* imagehash.average_hash: a coarse fingerprint, the same for contents that
\* start alike.
AverageHash(bytes) == IF bytes[1] = 0 THEN "ahash0" ELSE "ahash1"

\* _is_image_file: the suffix is one of the still-image extensions.
IsImageFile(p) ==
    p.suffix \in {".jpg", ".jpeg", ".png", ".bmp", ".tiff", ".tif", ".heic", ".heif"}


(* ------------------------------- state -------------------------------- *)

VARIABLES
    files,                \* path -> [content, mtime]: the file system
    now,                  \* the clock, in whole seconds
    file_records,         \* the committed rows of table file_records
    pending_records,      \* DeduplicationEngine._pending_records
    batch_size,           \* PerformanceConfig.batch_size
    imagehash_available,  \* IMAGEHASH_AVAILABLE
    conn,                 \* the connection of the store operation under way
    res,                  \* the DuplicateCheckResult the caller holds
    call,                 \* the step just taken: which call, and how it ended
    nstores,              \* history: store_file_record calls accepted
    repeated              \* history: an accepted record repeated a stored sha256

VARIABLES
    missing,              \* the paths whose stat() raises OSError
    dir_mtime,            \* int(st_mtime) of the scanned directory
    exif_cache,           \* the rows of table exif_cache
    directory_cache,      \* the rows of table directory_cache
    ret,                  \* what the cache operation just called returned
    written,              \* history: path, mtime -> map of the latest cache_exif
    entry,                \* history: path -> row of the latest cache_exif
    touched               \* history: paths whose mtime changed since that row

VARIABLES
    cache_exif,           \* PerformanceConfig.cache_exif
    exiftool_available,   \* EXIFProcessor.exiftool_available
    parallel_workers,     \* PerformanceConfig.parallel_workers
    job,                  \* the batch call under way: operation and input list
    units,                \* its work units, one per element of the input list
    results,              \* the mapping the batch call has built so far
    errors,               \* the paths logged with logger.error by the batch call
    ncalls                \* history: batch calls started

VARIABLES
    input,                \* the arguments of the call of a function without state
    output                \* what that call returned or raised

\* The state of the deduplication engine and its store.
engineVars ==
    <<files, now, file_records, pending_records, batch_size, imagehash_available,
      conn, res, call, nstores, repeated>>

\* The same without the marker of the step just taken.
engineState ==
    <<files, now, file_records, pending_records, batch_size, imagehash_available,
      conn, res, nstores, repeated>>

\* The metadata and directory caches, with the part of the file system they read.
cacheVars ==
    <<missing, dir_mtime, exif_cache, directory_cache, ret, written, entry, touched>>

\* The EXIF processor's configuration and the batch call under way.
batchVars ==
    <<cache_exif, exiftool_available, parallel_workers, job, units, results, errors,
      ncalls>>

vars ==
    <<files, now, file_records, pending_records, batch_size, imagehash_available,
      conn, res, call, nstores, repeated,
      missing, dir_mtime, exif_cache, directory_cache, ret, written, entry, touched,
      cache_exif, exiftool_available, parallel_workers, job, units, results, errors,
      ncalls, input, output>>

\* The call of a function without state, and its outcome.
valueVars == <<input, output>>

NoConn == [open |-> FALSE, work |-> {}, todo |-> <<>>, batch |-> <<>>, origin |-> "none"]

NoResult ==
    [path |-> NoPath, status |-> "none", existing_file |-> NoPath,
     similarity_score |-> "None",
     hashes |-> [sha256 |-> 0, size |-> 0, perceptual |-> NoHash],
     unchanged |-> FALSE, trace |-> <<>>]

(* ------------------------- DatabaseManager ---------------------------- *)

\* Faulty variant: the unique index is on source_path, not on sha256_hash.
InsertOrReplaceByPath(table, record) ==
    {r \in table : r.source_path # record.source_path} \cup {record}

\* Faulty variant: a plain INSERT with no unique index on the hash.
InsertOnly(table, record) == table \cup {record}

\* INSERT OR REPLACE under UNIQUE(sha256_hash): the row holding the new row's
\* hash is deleted, then the new row is inserted.
InsertOrReplace(table, record) ==
    {r \in table : r.sha256_hash # record.sha256_hash} \cup {record}

\* Faulty variant: the statements already executed survive the error, as
\* they would on an autocommit connection.
RollbackKeepsWork(committed, work) == work

\* conn.close() without commit: the statements executed on the connection are
\* rolled back and the committed table stays as it was.
RollbackRows(committed, work) == committed

\* Faulty variant: the lookup never matches (say, a float mtime compared
\* with the stored integer).
IsFileUnchangedNever(path, current_mtime) == FALSE

\* is_file_unchanged: a row with this source_path and this file_mtime exists.
IsFileUnchanged(path, current_mtime) ==
    \E r \in file_records : r.source_path = path /\ r.file_mtime = current_mtime

\* get_file_by_path_and_mtime: the rows fetchone() may return.
GetFileByPathAndMtime(path, mtime) ==
    {r \in file_records : r.source_path = path /\ r.file_mtime = mtime}

\* get_files_by_size_range: WHERE file_size BETWEEN min_size AND max_size.
GetFilesBySizeRange(min_size, max_size) ==
    {r \in file_records : min_size <= r.file_size /\ r.file_size <= max_size}

\* Faulty variant: every row that has a perceptual hash matches.
GetFilesByPerceptualHashAny(perceptual_hash) ==
    {r \in file_records : r.perceptual_hash # NoHash}

\* get_files_by_perceptual_hash: WHERE perceptual_hash = ?, over the whole table.
GetFilesByPerceptualHash(perceptual_hash) ==
    {r \in file_records : r.perceptual_hash = perceptual_hash}

(* ------------------------ DeduplicationEngine ------------------------- *)

\* calculate_hashes: size, SHA-256 of the bytes, and the perceptual hash of a
\* still image when the library is there.
CalculateHashes(p) ==
    [sha256 |-> Sha256(files[p].content),
     size |-> Len(files[p].content),
     perceptual |-> IF imagehash_available /\ IsImageFile(p)
                    THEN AverageHash(files[p].content)
                    ELSE NoHash]

\* _get_files_by_size: size_tolerance = 0, an exact match.
size_tolerance == 0

GetFilesBySize(file_size) ==
    GetFilesBySizeRange(file_size - size_tolerance, file_size + size_tolerance)

Result(p, status, existing, score, hashes, unchanged, trace) ==
    [path |-> p, status |-> status, existing_file |-> existing,
     similarity_score |-> score, hashes |-> hashes,
     unchanged |-> unchanged, trace |-> trace]

\* Faulty variant: a perceptual match is returned without its score.
CheckHashDuplicatesUnscored(p, hashes, potential_duplicates, unchanged, trace) ==
    LET exact == {e \in potential_duplicates : e.sha256_hash = hashes.sha256}
        similar_files == GetFilesByPerceptualHash(hashes.perceptual)
    IN  IF exact # {}
        THEN {Result(p, StatusDuplicate, e.source_path, "None", hashes, unchanged,
                     trace \o <<"sha256_compare">>) : e \in exact}
        ELSE IF hashes.perceptual # NoHash /\ imagehash_available /\ similar_files # {}
        THEN {Result(p, StatusSimilar, s.source_path, "None", hashes, unchanged,
                     trace \o <<"sha256_compare", "perceptual_lookup">>) :
                  s \in similar_files}
        ELSE {Result(p, StatusNew, NoPath, "None", hashes, unchanged,
                     trace \o <<"sha256_compare">>)}

\* Faulty variant: _check_hash_duplicates with the perceptual lookup put first.
CheckHashDuplicatesPerceptualFirst(p, hashes, potential_duplicates, unchanged, trace) ==
    LET similar_files == GetFilesByPerceptualHash(hashes.perceptual)
        exact == {e \in potential_duplicates : e.sha256_hash = hashes.sha256}
    IN  IF hashes.perceptual # NoHash /\ imagehash_available /\ similar_files # {}
        THEN {Result(p, StatusSimilar, s.source_path, "0.9", hashes, unchanged,
                     trace \o <<"perceptual_lookup">>) : s \in similar_files}
        ELSE IF exact # {}
        THEN {Result(p, StatusDuplicate, e.source_path, "None", hashes, unchanged,
                     trace \o <<"sha256_compare">>) : e \in exact}
        ELSE {Result(p, StatusNew, NoPath, "None", hashes, unchanged,
                     trace \o <<"sha256_compare">>)}

\* _check_hash_duplicates: the results the call may return (the row order of
\* the two queries is not specified, so "first" is any matching row).
CheckHashDuplicates(p, hashes, potential_duplicates, unchanged, trace) ==
    LET exact == {e \in potential_duplicates : e.sha256_hash = hashes.sha256}
        similar_files == GetFilesByPerceptualHash(hashes.perceptual)
    IN  IF exact # {}
        THEN {Result(p, StatusDuplicate, e.source_path, "None", hashes, unchanged,
                     trace \o <<"sha256_compare">>) : e \in exact}
        ELSE IF hashes.perceptual # NoHash /\ imagehash_available
        THEN IF similar_files # {}
             THEN {Result(p, StatusSimilar, s.source_path, "0.9", hashes, unchanged,
                          trace \o <<"sha256_compare", "perceptual_lookup">>)
                      : s \in similar_files}
             ELSE {Result(p, StatusNew, NoPath, "None", hashes, unchanged,
                          trace \o <<"sha256_compare", "perceptual_lookup">>)}
        ELSE {Result(p, StatusNew, NoPath, "None", hashes, unchanged,
                     trace \o <<"sha256_compare">>)}

\* Faulty variant: check_duplicate that hashes the file before it looks
\* anything up.
CheckDuplicateHashesFirst(p) ==
    LET file_size == Len(files[p].content)
        file_mtime == files[p].mtime
        unchanged == IsFileUnchanged(p, file_mtime)
        existing == IF unchanged THEN GetFileByPathAndMtime(p, file_mtime) ELSE {}
        potential_duplicates == GetFilesBySize(file_size)
    IN  IF existing # {}
        THEN {Result(p, StatusDuplicate, e.source_path, "None",
                     [sha256 |-> e.sha256_hash, size |-> e.file_size,
                      perceptual |-> e.perceptual_hash],
                     unchanged, <<"calculate_hashes", "path_mtime_lookup">>) : e \in existing}
        ELSE IF potential_duplicates = {}
        THEN {Result(p, StatusNew, NoPath, "None", CalculateHashes(p), unchanged,
                     <<"calculate_hashes", "path_mtime_lookup", "size_query">>)}
        ELSE CheckHashDuplicates(p, CalculateHashes(p), potential_duplicates, unchanged,
                                 <<"calculate_hashes", "path_mtime_lookup", "size_query">>)

\* check_duplicate: the results the call may return for path p.
CheckDuplicate(p) ==
    LET file_size == Len(files[p].content)
        file_mtime == files[p].mtime
        unchanged == IsFileUnchanged(p, file_mtime)
        existing == IF unchanged THEN GetFileByPathAndMtime(p, file_mtime) ELSE {}
        potential_duplicates == GetFilesBySize(file_size)
    IN  IF existing # {}
        THEN {Result(p, StatusDuplicate, e.source_path, "None",
                     [sha256 |-> e.sha256_hash, size |-> e.file_size,
                      perceptual |-> e.perceptual_hash],
                     unchanged, <<"path_mtime_lookup">>) : e \in existing}
        ELSE IF potential_duplicates = {}
        THEN {Result(p, StatusNew, NoPath, "None", CalculateHashes(p), unchanged,
                     <<"path_mtime_lookup", "size_query", "calculate_hashes">>)}
        ELSE CheckHashDuplicates(p, CalculateHashes(p), potential_duplicates, unchanged,
                                 <<"path_mtime_lookup", "size_query", "calculate_hashes">>)

\* The FileRecord store_file_record builds: the caller's hashes with the mtime
\* the file has now.
MakeRecord(p, hashes) ==
    [source_path |-> p, sha256_hash |-> hashes.sha256,
     perceptual_hash |-> hashes.perceptual, file_size |-> hashes.size,
     file_mtime |-> files[p].mtime]

\* Faulty variant: the flush leaves out the record appended last.
FlushBatchDropsLast(pending) == SubSeq(pending, 1, Len(pending) - 1)

\* The list _flush_pending_records hands to batch_insert_records.
FlushBatch(pending) == pending

\* A store operation opens its connection on the committed table.
Open(records, origin) ==
    [open |-> TRUE, work |-> file_records, todo |-> records, batch |-> records,
     origin |-> origin]

(* -------------------- metadata and directory cache -------------------- *)

\* datetime.now() and st_mtime are read off the same clock; a day in seconds.
SecondsPerDay == 86400

\* The directory whose scans are cached.
Dir == [stem |-> "d", suffix |-> ""]

\* file_count arguments of update_directory_cache.
FileCounts == {0, 1}

\* days_old arguments of cleanup_old_cache_entries.
DaysOld == {-1, 0, 1}

\* A metadata map: keys to values, all text; "None" stands for Python's None.
MapOf(make, model) ==
    [k \in {"Make", "Model"} |-> IF k = "Make" THEN make ELSE model]

EmptyMap == [k \in {} |-> ""]

\* The maps callers hand to cache_exif.
MetaSamples == {MapOf("Canon", "R5"), MapOf("Nikon", "None")}

\* json.dumps: an object with one member per key; None is written as null,
\* any other value as a string.
JsonDumps(m) ==
    [valid |-> TRUE,
     members |-> [k \in DOMAIN m |->
                     [null |-> m[k] = "None",
                      text |-> IF m[k] = "None" THEN "" ELSE m[k]]]]

\* Faulty variant: null is read as the empty text.
JsonLoadsNullAsText(t) ==
    [k \in DOMAIN t.members |->
        IF t.members[k].null THEN "" ELSE t.members[k].text]

\* json.loads of a text that parses: null is read as None.
JsonLoads(t) ==
    [k \in DOMAIN t.members |->
        IF t.members[k].null THEN "None" ELSE t.members[k].text]

\* datetime.isoformat(): the date, then the time of day; two such texts are
\* compared from the left, as SQLite compares TEXT.
IsoFormat(t) == [date |-> t \div SecondsPerDay, time |-> t % SecondsPerDay]

TextLess(a, b) == a.date < b.date \/ (a.date = b.date /\ a.time < b.time)

None == [some |-> FALSE, map |-> EmptyMap]

Some(m) == [some |-> TRUE, map |-> m]

NoRow ==
    [file_path |-> NoPath, file_mtime |-> -1, exif_data |-> JsonDumps(EmptyMap),
     created_date |-> IsoFormat(0)]

\* Nothing returned: no operation, no argument, no map, no row, no answer.
NoRet ==
    [op |-> "none", path |-> NoPath, arg |-> 0, value |-> None, row |-> NoRow,
     changed |-> FALSE]

\* Faulty variant: a plain INSERT with no unique index on (file_path, file_mtime).
CacheInsertOnly(table, row) == table \cup {row}

\* Faulty variant: the statement replaces the table by the row.
CacheReplaceTable(table, row) == {row}

\* INSERT OR REPLACE under UNIQUE(file_path, file_mtime).
CacheInsertOrReplace(table, row) ==
    {r \in table : ~(r.file_path = row.file_path /\ r.file_mtime = row.file_mtime)}
        \cup {row}

\* Faulty variant: a plain INSERT with no unique index on directory_path.
DirInsertOnly(table, row) == table \cup {row}

\* INSERT OR REPLACE under UNIQUE(directory_path).
DirInsertOrReplace(table, row) ==
    {r \in table : r.directory_path # row.directory_path} \cup {row}

\* Faulty variant: the lookup is by path alone.
CachedRowsAnyMtime(p) == {r \in exif_cache : r.file_path = p}

\* SELECT exif_data FROM exif_cache WHERE file_path = ? AND file_mtime = ?
\* with the mtime the file has now: the rows fetchone() may return.
CachedRows(p) ==
    {r \in exif_cache : r.file_path = p /\ r.file_mtime = files[p].mtime}

\* A text json.loads rejects with JSONDecodeError.
InvalidJson == [valid |-> FALSE, members |-> EmptyMap]

\* Faulty variant: the text of the row is taken for JSON whatever it is.
GetCachedExifUnchecked(p) ==
    IF p \in missing \/ CachedRows(p) = {}
    THEN {[op |-> "get_cached_exif", path |-> p, arg |-> 0, value |-> None,
           row |-> NoRow, changed |-> FALSE]}
    ELSE {[op |-> "get_cached_exif", path |-> p, arg |-> 0,
           value |-> Some(JsonLoads(r.exif_data)), row |-> r,
           changed |-> FALSE] : r \in CachedRows(p)}

\* get_cached_exif: what the call may return, with the row it read.  None
\* when the file cannot be stat'ed, when no row matches, and when the text of
\* the row is not JSON.
GetCachedExif(p) ==
    IF p \in missing \/ CachedRows(p) = {}
    THEN {[op |-> "get_cached_exif", path |-> p, arg |-> 0, value |-> None,
           row |-> NoRow, changed |-> FALSE]}
    ELSE {[op |-> "get_cached_exif", path |-> p, arg |-> 0,
           value |-> IF r.exif_data.valid THEN Some(JsonLoads(r.exif_data)) ELSE None,
           row |-> r, changed |-> FALSE] : r \in CachedRows(p)}

\* The row cache_exif writes for p now.
CacheRow(p, exif_data) ==
    [file_path |-> p, file_mtime |-> files[p].mtime,
     exif_data |-> JsonDumps(exif_data), created_date |-> IsoFormat(now)]

\* Faulty variant: stat() is not guarded and the row is written with the
\* mtime last seen.
CacheExifUnguarded(p, exif_data) ==
    CacheInsertOrReplace(exif_cache, CacheRow(p, exif_data))

\* Faulty variant: the row is never written.
CacheExifSkipped(p, exif_data) == exif_cache

\* cache_exif: the table after the call; nothing is written when the mtime of
\* the file cannot be read.
CacheExif(p, exif_data) ==
    IF p \in missing THEN exif_cache
    ELSE CacheInsertOrReplace(exif_cache, CacheRow(p, exif_data))

\* Faulty variant: any difference between the two mtimes counts as a change.
IsDirectoryChangedOnDifference ==
    IF Dir \in missing \/ directory_cache = {}
    THEN {TRUE}
    ELSE {dir_mtime # r.last_modified : r \in directory_cache}

\* is_directory_changed(Dir): the answers the call may give.  True when the
\* directory cannot be stat'ed and when it has no row; otherwise whether its
\* mtime is greater than the last_modified of the row fetchone() returns.
IsDirectoryChanged ==
    IF Dir \in missing \/ {r \in directory_cache : r.directory_path = Dir} = {}
    THEN {TRUE}
    ELSE {dir_mtime > r.last_modified :
              r \in {d \in directory_cache : d.directory_path = Dir}}

\* update_directory_cache: the table after the call; nothing is written when
\* the mtime of the directory cannot be read.
UpdateDirectoryCache(file_count) ==
    IF Dir \in missing THEN directory_cache
    ELSE DirInsertOrReplace(directory_cache,
        [directory_path |-> Dir, scan_timestamp |-> now, file_count |-> file_count,
         last_modified |-> dir_mtime])

\* cleanup_old_cache_entries: cutoff_date.
CutoffDate(days_old) == now - days_old * SecondsPerDay

\* Faulty variant: days_old = 0 goes through the cutoff comparison like any
\* other value.
CleanupExifCutoffOnly(days_old) ==
    {r \in exif_cache : ~TextLess(r.created_date, IsoFormat(CutoffDate(days_old)))}

\* cleanup_old_cache_entries: the rows of exif_cache it leaves.
CleanupExif(days_old) ==
    IF days_old = 0 THEN {}
    ELSE {r \in exif_cache :
             ~TextLess(r.created_date, IsoFormat(CutoffDate(days_old)))}

\* cleanup_old_cache_entries: the rows of directory_cache it leaves.
CleanupDirs(days_old) ==
    IF days_old = 0 THEN {}
    ELSE {r \in directory_cache : ~(r.scan_timestamp < CutoffDate(days_old))}

(* ------------------------------ actions ------------------------------- *)

Returned(op) == [op |-> op, outcome |-> "returned"]

Running(op) == [op |-> op, outcome |-> "running"]

\* No cache operation has been called yet.
IdleCache ==
    /\ missing = {}
    /\ dir_mtime = 0
    /\ exif_cache = {}
    /\ directory_cache = {}
    /\ ret = NoRet
    /\ written = [p \in Paths |-> [m \in 0..MaxTime |-> None]]
    /\ entry = [p \in Paths |-> NoRow]
    /\ touched = {}

\* No function without state has been called.
IdleValues ==
    /\ input = <<>>
    /\ output = <<>>

NoJob == [op |-> "none", paths |-> <<>>]

NoResults == [p \in {} |-> EmptyMap]

\* No batch call has been made yet.
IdleBatch ==
    /\ cache_exif = TRUE
    /\ exiftool_available = FALSE
    /\ parallel_workers = 1
    /\ job = NoJob
    /\ units = <<>>
    /\ results = NoResults
    /\ errors = {}
    /\ ncalls = 0

Init ==
    /\ IdleCache
    /\ IdleBatch
    /\ IdleValues
    /\ files \in {f \in [Paths -> [content : Contents, mtime : {0}]] :
                    \A p \in Paths \ Rewritten : f[p].content = StaticContent}
    /\ now = 0
    /\ file_records = {}
    /\ pending_records = <<>>
    /\ batch_size \in 1..MaxBatch
    /\ imagehash_available \in BOOLEAN
    /\ conn = NoConn
    /\ res = NoResult
    /\ call = Returned("init")
    /\ nstores = 0
    /\ repeated = FALSE

\* The clock reaches the next whole second.
Tick ==
    /\ ~conn.open
    /\ now < MaxTime
    /\ now' = now + 1
    /\ call' = Returned("environment")
    /\ UNCHANGED <<files, file_records, pending_records, batch_size,
                   imagehash_available, conn, res, nstores, repeated>>
    /\ UNCHANGED <<cacheVars, batchVars>>
    /\ UNCHANGED valueVars

\* Some program writes the file: new bytes, mtime of the current second.
WriteFile(p, bytes) ==
    /\ ~conn.open
    /\ files' = [files EXCEPT ![p] = [content |-> bytes, mtime |-> now]]
    /\ call' = Returned("environment")
    /\ UNCHANGED <<now, file_records, pending_records, batch_size,
                   imagehash_available, conn, res, nstores, repeated>>
    /\ UNCHANGED <<cacheVars, batchVars>>
    /\ UNCHANGED valueVars

\* Faulty variant: the error of stat() is swallowed and the file passes for new.
CheckDuplicateCallSwallowsError(p) ==
    /\ ~conn.open
    /\ IF p \in missing
       THEN res' = Result(p, StatusNew, NoPath, "None",
                          [sha256 |-> 0, size |-> 0, perceptual |-> NoHash], FALSE, <<>>)
       ELSE \E r \in CheckDuplicate(p) : res' = r
    /\ call' = Returned("check_duplicate")
    /\ UNCHANGED <<files, now, file_records, pending_records, batch_size,
                   imagehash_available, conn, nstores, repeated>>
    /\ UNCHANGED <<cacheVars, batchVars>>
    /\ UNCHANGED valueVars

\* check_duplicate(p): reads the file and the store, returns a verdict.  When
\* stat() raises, the error is logged and raised again: the caller gets no
\* result and keeps what it held.
CheckDuplicateCall(p) ==
    /\ ~conn.open
    /\ IF p \in missing
       THEN /\ res' = res
            /\ call' = [op |-> "check_duplicate", outcome |-> "raised"]
       ELSE /\ \E r \in CheckDuplicate(p) : res' = r
            /\ call' = Returned("check_duplicate")
    /\ UNCHANGED <<files, now, file_records, pending_records, batch_size,
                   imagehash_available, conn, nstores, repeated>>
    /\ UNCHANGED <<cacheVars, batchVars>>
    /\ UNCHANGED valueVars

\* The sha256 values of the records of a sequence.
RECURSIVE HashesOf(_)
HashesOf(records) ==
    IF records = <<>> THEN {}
    ELSE {Head(records).sha256_hash} \cup HashesOf(Tail(records))

\* Faulty variant: the buffer is flushed only when it holds batch_size
\* records exactly.
ThresholdReachedOnEquality(pending) == Len(pending) = batch_size

\* len(self._pending_records) >= self.config.batch_size
ThresholdReached(pending) == Len(pending) >= batch_size

\* Faulty variant: the record is built and stored although stat() failed,
\* with the mtime the file had last.
StoreFileRecordUnguarded ==
    /\ ~conn.open
    /\ res.status # "none"
    /\ nstores < MaxStores
    /\ LET record == MakeRecord(res.path, res.hashes)
       IN  /\ nstores' = nstores + 1
           /\ repeated' =
                  \/ repeated
                  \/ record.sha256_hash \in
                         {r.sha256_hash : r \in file_records}
                             \cup HashesOf(pending_records)
           /\ IF batch_size > 1
              THEN /\ pending_records' = Append(pending_records, record)
                   /\ IF ThresholdReached(pending_records')
                      THEN /\ conn' = Open(FlushBatch(pending_records'), "flush")
                           /\ call' = Running("store_file_record")
                      ELSE /\ conn' = conn
                           /\ call' = Returned("store_file_record")
              ELSE /\ pending_records' = pending_records
                   /\ conn' = Open(<<record>>, "insert")
                   /\ call' = Running("store_file_record")
    /\ res' = NoResult
    /\ UNCHANGED <<files, now, file_records, batch_size, imagehash_available>>
    /\ UNCHANGED <<cacheVars, batchVars>>
    /\ UNCHANGED valueVars

\* store_file_record(res.path, res.hashes): the caller stores the file it
\* checked, with the hashes the check gave it, and lets go of the result.
\* With batch_size > 1 the record is buffered and the buffer is flushed when
\* it reaches batch_size; otherwise insert_file_record inserts it on its own
\* connection.  When stat() on the file raises, the call logs the error and
\* returns without a record.
StoreFileRecord ==
    /\ ~conn.open
    /\ res.status # "none"
    /\ nstores < MaxStores
    /\ LET p == res.path
           record == MakeRecord(p, res.hashes)
       IN  IF p \in missing
           THEN /\ call' = Returned("store_file_record")
                /\ UNCHANGED <<nstores, repeated, pending_records, conn>>
           ELSE /\ nstores' = nstores + 1
                /\ repeated' =
                       \/ repeated
                       \/ record.sha256_hash \in
                              {r.sha256_hash : r \in file_records}
                                  \cup HashesOf(pending_records)
                /\ IF batch_size > 1
                   THEN /\ pending_records' = Append(pending_records, record)
                        /\ IF ThresholdReached(pending_records')
                           THEN /\ conn' = Open(FlushBatch(pending_records'), "flush")
                                /\ call' = Running("store_file_record")
                           ELSE /\ conn' = conn
                                /\ call' = Returned("store_file_record")
                   ELSE /\ pending_records' = pending_records
                        /\ conn' = Open(<<record>>, "insert")
                        /\ call' = Running("store_file_record")
    /\ res' = NoResult
    /\ UNCHANGED <<files, now, file_records, batch_size, imagehash_available>>
    /\ UNCHANGED <<cacheVars, batchVars>>
    /\ UNCHANGED valueVars

\* flush_pending_records: a non-empty buffer goes to batch_insert_records.
FlushPendingRecords ==
    /\ ~conn.open
    /\ IF pending_records # <<>>
       THEN /\ conn' = Open(FlushBatch(pending_records), "flush")
            /\ call' = Running("flush_pending_records")
       ELSE /\ conn' = conn
            /\ call' = Returned("flush_pending_records")
    /\ UNCHANGED <<files, now, file_records, pending_records, batch_size,
                   imagehash_available, res, nstores, repeated>>
    /\ UNCHANGED <<cacheVars, batchVars>>
    /\ UNCHANGED valueVars

\* One INSERT OR REPLACE of execute / executemany, inside the transaction.
DbExecute ==
    /\ conn.open
    /\ conn.todo # <<>>
    /\ conn' = [conn EXCEPT !.work = InsertOrReplace(@, Head(conn.todo)),
                            !.todo = Tail(conn.todo)]
    /\ UNCHANGED <<files, now, file_records, pending_records, batch_size,
                   imagehash_available, res, call, nstores, repeated>>
    /\ UNCHANGED <<cacheVars, batchVars>>
    /\ UNCHANGED valueVars

\* conn.commit(), then the connection is closed and the call returns; after a
\* flush the engine clears its buffer.
DbCommit ==
    /\ conn.open
    /\ conn.todo = <<>>
    /\ file_records' = conn.work
    /\ conn' = NoConn
    /\ pending_records' = IF conn.origin = "flush" THEN <<>> ELSE pending_records
    /\ call' = Returned(call.op)
    /\ UNCHANGED <<files, now, batch_size, imagehash_available, res, nstores, repeated>>
    /\ UNCHANGED <<cacheVars, batchVars>>
    /\ UNCHANGED valueVars

\* Faulty variant: the buffer is cleared although the batch insert raised.
DbErrorClearsBuffer ==
    /\ conn.open
    /\ file_records' = RollbackRows(file_records, conn.work)
    /\ conn' = NoConn
    /\ pending_records' = IF conn.origin = "flush" THEN <<>> ELSE pending_records
    /\ call' = [op |-> call.op, outcome |-> "raised"]
    /\ UNCHANGED <<files, now, batch_size, imagehash_available, res, nstores, repeated>>
    /\ UNCHANGED <<cacheVars, batchVars>>
    /\ UNCHANGED valueVars

\* Faulty variant: the error reaches the caller with the connection left open.
DbErrorLeavesOpen ==
    /\ conn.open
    /\ call.outcome = "running"
    /\ file_records' = RollbackRows(file_records, conn.work)
    /\ conn' = conn
    /\ call' = [op |-> call.op, outcome |-> "raised"]
    /\ UNCHANGED <<files, now, pending_records, batch_size, imagehash_available,
                   res, nstores, repeated>>
    /\ UNCHANGED <<cacheVars, batchVars>>
    /\ UNCHANGED valueVars

\* The storage layer raises before the commit: the connection is closed
\* without a commit and the error reaches the caller (the buffer is not
\* cleared).
DbError ==
    /\ conn.open
    /\ file_records' = RollbackRows(file_records, conn.work)
    /\ conn' = NoConn
    /\ call' = [op |-> call.op, outcome |-> "raised"]
    /\ UNCHANGED <<files, now, pending_records, batch_size, imagehash_available,
                   res, nstores, repeated>>
    /\ UNCHANGED <<cacheVars, batchVars>>
    /\ UNCHANGED valueVars

\* The engine and its environment, the storage layer never failing.
Next ==
    \/ Tick
    \/ \E p \in Rewritten, bytes \in Contents : WriteFile(p, bytes)
    \/ \E p \in Paths : CheckDuplicateCall(p)
    \/ StoreFileRecord
    \/ FlushPendingRecords
    \/ DbExecute
    \/ DbCommit

Spec == Init /\ [][Next]_vars

\* The engine on files nobody writes, the storage layer failing at will.
NextFaulty ==
    \/ \E p \in Paths : CheckDuplicateCall(p)
    \/ StoreFileRecord
    \/ FlushPendingRecords
    \/ DbExecute
    \/ DbCommit
    \/ DbError

SpecFaulty == Init /\ [][NextFaulty]_vars

TypeOK ==
    /\ now \in 0..MaxTime
    /\ nstores \in 0..MaxStores
    /\ Len(pending_records) <= MaxStores

(* -------------------------- cache operations -------------------------- *)

\* A record of file y committed and a record of file x waiting in the buffer:
\* the store after store(y), flush, store(x) with batch_size 2.
StoredRecord(p) == MakeRecord(p, CalculateHashes(p))

InitCache ==
    /\ IdleCache
    /\ IdleBatch
    /\ IdleValues
    /\ files = [p \in Paths |->
                   [content |-> IF p \in Rewritten THEN <<0>> ELSE StaticContent,
                    mtime |-> 0]]
    /\ now = 0
    /\ batch_size = MaxBatch
    /\ imagehash_available = FALSE
    /\ file_records = {StoredRecord(p) : p \in Paths \ Rewritten}
    /\ pending_records \in {<<StoredRecord(p)>> : p \in Rewritten}
    /\ conn = NoConn
    /\ res = NoResult
    /\ call = Returned("init")
    /\ nstores = MaxBatch
    /\ repeated = FALSE

\* os.utime, or a rewrite with the clock set back or forth: the mtime of p
\* becomes t, earlier or later than it was.
Utime(p, t) ==
    /\ t # files[p].mtime
    /\ files' = [files EXCEPT ![p].mtime = t]
    /\ touched' = IF entry[p] # NoRow THEN touched \cup {p} ELSE touched
    /\ call' = Returned("environment")
    /\ ret' = NoRet
    /\ UNCHANGED <<now, file_records, pending_records, batch_size, imagehash_available,
                   conn, res, nstores, repeated>>
    /\ UNCHANGED <<missing, dir_mtime, exif_cache, directory_cache, written, entry>>
    /\ UNCHANGED batchVars
    /\ UNCHANGED valueVars

\* The file or directory is removed: stat() on it raises from now on.  A
\* batch call under way goes on.
Unlink(p) ==
    /\ p \notin missing
    /\ missing' = missing \cup {p}
    /\ call' = IF call.outcome = "running" THEN call ELSE Returned("environment")
    /\ ret' = NoRet
    /\ UNCHANGED <<files, now, file_records, pending_records, batch_size,
                   imagehash_available, conn, res, nstores, repeated>>
    /\ UNCHANGED <<dir_mtime, exif_cache, directory_cache, written, entry, touched>>
    /\ UNCHANGED batchVars
    /\ UNCHANGED valueVars

\* get_cached_exif(p), called by a caller that is not inside a batch call.
GetCachedExifCall(p) ==
    /\ call.outcome # "running"
    /\ \E r \in GetCachedExif(p) : ret' = r
    /\ call' = Returned("get_cached_exif")
    /\ UNCHANGED <<files, now, file_records, pending_records, batch_size,
                   imagehash_available, conn, res, nstores, repeated>>
    /\ UNCHANGED <<missing, dir_mtime, exif_cache, directory_cache, written, entry,
                   touched>>
    /\ UNCHANGED batchVars
    /\ UNCHANGED valueVars

\* cache_exif(p, exif_data): one INSERT OR REPLACE, committed.
CacheExifCall(p, exif_data) ==
    /\ exif_cache' = CacheExif(p, exif_data)
    /\ IF p \in missing
       THEN UNCHANGED <<written, entry, touched>>
       ELSE /\ written' = [written EXCEPT ![p][files[p].mtime] = Some(exif_data)]
            /\ entry' = [entry EXCEPT ![p] = CacheRow(p, exif_data)]
            /\ touched' = touched \ {p}
    /\ call' = Returned("cache_exif")
    /\ ret' = [NoRet EXCEPT !.op = "cache_exif", !.path = p]
    /\ UNCHANGED <<files, now, file_records, pending_records, batch_size,
                   imagehash_available, conn, res, nstores, repeated>>
    /\ UNCHANGED <<missing, dir_mtime, directory_cache>>
    /\ UNCHANGED batchVars
    /\ UNCHANGED valueVars

\* update_directory_cache(Dir, file_count): one INSERT OR REPLACE, committed.
UpdateDirectoryCacheCall(file_count) ==
    /\ directory_cache' = UpdateDirectoryCache(file_count)
    /\ call' = Returned("update_directory_cache")
    /\ ret' = NoRet
    /\ UNCHANGED <<files, now, file_records, pending_records, batch_size,
                   imagehash_available, conn, res, nstores, repeated>>
    /\ UNCHANGED <<missing, dir_mtime, exif_cache, written, entry, touched>>
    /\ UNCHANGED batchVars
    /\ UNCHANGED valueVars

\* cleanup_old_cache_entries(days_old): two DELETE statements, committed.
CleanupOldCacheEntries(days_old) ==
    /\ exif_cache' = CleanupExif(days_old)
    /\ directory_cache' = CleanupDirs(days_old)
    /\ call' = Returned("cleanup_old_cache_entries")
    /\ ret' = [NoRet EXCEPT !.op = "cleanup_old_cache_entries", !.arg = days_old]
    /\ UNCHANGED <<files, now, file_records, pending_records, batch_size,
                   imagehash_available, conn, res, nstores, repeated>>
    /\ UNCHANGED <<missing, dir_mtime, written, entry, touched>>
    /\ UNCHANGED batchVars
    /\ UNCHANGED valueVars

\* Files are added to or removed from the directory, or os.utime is called on
\* it: its mtime becomes t.
TouchDir(t) ==
    /\ Dir \notin missing
    /\ t # dir_mtime
    /\ dir_mtime' = t
    /\ call' = Returned("environment")
    /\ ret' = NoRet
    /\ UNCHANGED engineState
    /\ UNCHANGED <<missing, exif_cache, directory_cache, written, entry, touched>>
    /\ UNCHANGED batchVars
    /\ UNCHANGED valueVars

\* is_directory_changed(Dir).
IsDirectoryChangedCall ==
    /\ \E changed \in IsDirectoryChanged :
           ret' = [NoRet EXCEPT !.op = "is_directory_changed", !.path = Dir,
                                !.changed = changed]
    /\ call' = Returned("is_directory_changed")
    /\ UNCHANGED engineState
    /\ UNCHANGED <<missing, dir_mtime, exif_cache, directory_cache, written, entry,
                   touched>>
    /\ UNCHANGED batchVars
    /\ UNCHANGED valueVars

\* The metadata cache read and written in any order, the files changing
\* mtime or vanishing under it.
NextCache ==
    \/ \E p \in Rewritten, t \in 0..MaxTime : Utime(p, t)
    \/ \E p \in Paths : Unlink(p)
    \/ \E p \in Paths : GetCachedExifCall(p)
    \/ \E p \in Paths, exif_data \in MetaSamples : CacheExifCall(p, exif_data)
    \/ \E days_old \in DaysOld : CleanupOldCacheEntries(days_old)

SpecCache == InitCache /\ [][NextCache]_vars

\* Both caches written and cleaned up in any order while the clock runs.
NextCleanup ==
    \/ Tick
    \/ \E p \in Rewritten, t \in 0..MaxTime : Utime(p, t)
    \/ \E p \in Rewritten, exif_data \in MetaSamples : CacheExifCall(p, exif_data)
    \/ \E file_count \in FileCounts : UpdateDirectoryCacheCall(file_count)
    \/ \E days_old \in DaysOld : CleanupOldCacheEntries(days_old)

SpecCleanup == InitCache /\ [][NextCleanup]_vars

\* The scanner asks whether the directory changed and records its scans,
\* while the directory is touched, removed, and the caches are cleaned up.
NextDirectory ==
    \/ Tick
    \/ \E t \in 0..MaxTime : TouchDir(t)
    \/ Unlink(Dir)
    \/ IsDirectoryChangedCall
    \/ \E file_count \in FileCounts : UpdateDirectoryCacheCall(file_count)
    \/ \E days_old \in DaysOld : CleanupOldCacheEntries(days_old)

SpecDirectory == InitCache /\ [][NextDirectory]_vars

\* The engine on a store that holds a committed record and a pending one,
\* while files change mtime and vanish.
NextMissing ==
    \/ \E p \in Rewritten, t \in 0..MaxTime : Utime(p, t)
    \/ \E p \in Paths : Unlink(p)
    \/ \E p \in Paths : CheckDuplicateCall(p)
    \/ StoreFileRecord
    \/ FlushPendingRecords
    \/ DbExecute
    \/ DbCommit

SpecMissing == InitCache /\ [][NextMissing]_vars

(* --------------------------- EXIF processor --------------------------- *)

\* EXIFProcessor.batch_extract_metadata is called with parallel_workers drawn
\* from 1..MaxWorkers.
MaxWorkers == 2

\* At most MaxCalls batch calls are made in one run.
MaxCalls == 1

\* The keys of _extract_filesystem_metadata and _create_minimal_metadata.
CanonicalKeys ==
    {"Make", "Model", "LensModel", "DateTime", "ISO", "FNumber", "ExposureTime",
     "FocalLength", "GPSLatitude", "GPSLongitude", "FileSize", "FileType",
     "ImageWidth", "ImageHeight"}

\* file_path.suffix.lower().lstrip('.')
FileType(p) ==
    CASE p.suffix = ".jpg" -> "jpg"
      [] p.suffix = ".txt" -> "txt"
      [] OTHER -> ""

\* Pillow is a dependency: self.pillow_available = True.
pillow_available == TRUE

\* What a reader can do with a file: raise, find nothing, find metadata.
TierOutcomes == {"raises", "nothing", "metadata"}

\* What a step of the chain returns: a map, or an exception.
Returns(map) == [raised |-> FALSE, map |-> map]

Raises == [raised |-> TRUE, map |-> EmptyMap]

\* The map of a file without GPS tags, normalised by
\* _normalize_exiftool_metadata.
ExiftoolMap(p) ==
    [k \in CanonicalKeys \ {"GPSLatitude", "GPSLongitude"} |->
        CASE k = "Make" -> "NIKON CORPORATION"
          [] k = "Model" -> "NIKON Z 6_2"
          [] k = "FileSize" -> ToString(Len(files[p].content))
          [] k = "FileType" -> "JPEG"
          [] OTHER -> "None"]

\* The map _extract_with_pillow builds from the tags of an image.
PillowMap(p) ==
    [k \in {"Make", "Model", "ImageWidth", "ImageHeight"} |->
        CASE k = "Make" -> "Canon"
          [] k = "Model" -> "EOS R5"
          [] OTHER -> "1"]

\* _extract_with_exiftool: get_metadata raises, returns an empty list, or
\* returns the tags of the file.
ExtractWithExiftool(p, outcome) ==
    CASE outcome = "raises" -> Raises
      [] outcome = "nothing" -> Returns(EmptyMap)
      [] OTHER -> Returns(ExiftoolMap(p))

\* _extract_with_pillow: an exception of Image.open or getexif is caught
\* inside and gives {}, as an image without EXIF does.
ExtractWithPillow(p, outcome) ==
    CASE outcome = "raises" -> Returns(EmptyMap)
      [] outcome = "nothing" -> Returns(EmptyMap)
      [] OTHER -> Returns(PillowMap(p))

\* The fourteen keys with the values that do not come from stat().
MinimalMap(p, date_time, file_size) ==
    [k \in CanonicalKeys |->
        CASE k \in {"Make", "Model", "LensModel", "ExposureTime"} -> ""
          [] k = "DateTime" -> date_time
          [] k = "FileSize" -> file_size
          [] k = "FileType" -> FileType(p)
          [] OTHER -> "None"]

\* _extract_filesystem_metadata: stat() is not guarded here.
ExtractFilesystemMetadata(p) ==
    IF p \in missing THEN Raises
    ELSE Returns(MinimalMap(p, ToString(IsoFormat(files[p].mtime)),
                            ToString(Len(files[p].content))))

\* Faulty variant: stat() is not guarded in _create_minimal_metadata either.
CreateMinimalMetadataUnguarded(p) == ExtractFilesystemMetadata(p)

\* _create_minimal_metadata: when stat() raises, size 0 and the time of the
\* call.
CreateMinimalMetadata(p) ==
    IF p \in missing
    THEN Returns(MinimalMap(p, ToString(IsoFormat(now)), "0"))
    ELSE Returns(MinimalMap(p, ToString(IsoFormat(files[p].mtime)),
                            ToString(Len(files[p].content))))

Attempt(tier, r) ==
    [tier |-> tier,
     outcome |-> IF r.raised THEN "raised" ELSE IF r.map = EmptyMap THEN "empty" ELSE "metadata"]

\* The chain from the filesystem tier on.
FilesystemFallback(p, trace) ==
    LET fs == ExtractFilesystemMetadata(p)
        minimal == CreateMinimalMetadata(p)
    IN  IF ~fs.raised
        THEN [raised |-> FALSE, map |-> fs.map,
              trace |-> Append(trace, Attempt("filesystem", fs))]
        ELSE [raised |-> minimal.raised, map |-> minimal.map,
              trace |-> trace \o <<Attempt("filesystem", fs), Attempt("minimal", minimal)>>]

\* The chain from the Pillow tier on.
PillowFallback(p, pillow, trace) ==
    LET r == ExtractWithPillow(p, pillow)
    IN  IF ~pillow_available
        THEN FilesystemFallback(p, trace)
        ELSE IF ~r.raised /\ r.map # EmptyMap
        THEN [raised |-> FALSE, map |-> r.map, trace |-> Append(trace, Attempt("pillow", r))]
        ELSE FilesystemFallback(p, Append(trace, Attempt("pillow", r)))

\* Faulty variant: the chain asks Pillow first and ExifTool second.
ExtractWithFallbackPillowFirst(p, exiftool, pillow) ==
    LET r == ExtractWithPillow(p, pillow)
        e == ExtractWithExiftool(p, exiftool)
    IN  IF ~r.raised /\ r.map # EmptyMap
        THEN [raised |-> FALSE, map |-> r.map, trace |-> <<Attempt("pillow", r)>>]
        ELSE IF exiftool_available /\ ~e.raised /\ e.map # EmptyMap
        THEN [raised |-> FALSE, map |-> e.map,
              trace |-> <<Attempt("pillow", r), Attempt("exiftool", e)>>]
        ELSE FilesystemFallback(p, <<Attempt("pillow", r)>>)

\* _extract_with_fallback: what the chain returns and the tiers it invoked,
\* in order, given what the two readers do with the file.
ExtractWithFallback(p, exiftool, pillow) ==
    LET e == ExtractWithExiftool(p, exiftool)
    IN  IF ~exiftool_available
        THEN PillowFallback(p, pillow, <<>>)
        ELSE IF ~e.raised /\ e.map # EmptyMap
        THEN [raised |-> FALSE, map |-> e.map, trace |-> <<Attempt("exiftool", e)>>]
        ELSE PillowFallback(p, pillow, <<Attempt("exiftool", e)>>)

(* ----------------------------- batch calls ---------------------------- *)

\* The file_paths lists of the batch calls: empty, one path, two paths, the
\* same path twice.
InputLists ==
    {<<>>} \cup {<<p>> : p \in Paths} \cup {<<p, q>> : p \in Rewritten, q \in Paths}

NoHashes == [sha256 |-> 0, size |-> 0, perceptual |-> NoHash]

\* A work unit as submitted: extract_metadata(path) or calculate_hashes(path).
Queued(p) ==
    [path |-> p, pc |-> "queued", raised |-> FALSE, hit |-> FALSE, trace |-> <<>>,
     map |-> EmptyMap, hashes |-> NoHashes]

\* The batch call uses a ThreadPoolExecutor.
UsesPool == parallel_workers > 1 /\ Len(job.paths) > 1

Started(i) == units[i].pc \in {"missed", "extracted", "hashing"}

\* Faulty variant: the pool starts every unit it is given, however many run.
MayStartUnbounded(i) ==
    /\ units[i].pc = "queued"
    /\ IF UsesPool
       THEN \A j \in 1..(i - 1) : units[j].pc # "queued"
       ELSE \A j \in 1..(i - 1) : units[j].pc = "collected"

\* Unit i may start: in the pool, when a worker is free and the units
\* submitted before it have started; in the loop, when the units before it
\* are dealt with.
MayStart(i) ==
    /\ units[i].pc = "queued"
    /\ IF UsesPool
       THEN /\ Cardinality({j \in 1..Len(units) : Started(j)}) < parallel_workers
            /\ \A j \in 1..(i - 1) : units[j].pc # "queued"
       ELSE \A j \in 1..(i - 1) : units[j].pc = "collected"

\* results[path] = value
Put(mapping, p, value) ==
    [q \in (DOMAIN mapping) \cup {p} |-> IF q = p THEN value ELSE mapping[q]]

\* Faulty variant: a unit that raised leaves no entry.
CollectMetadataDropsFailed(mapping, u) ==
    IF u.raised THEN mapping ELSE Put(mapping, u.path, u.map)

\* batch_extract_metadata: the mapping after the result of a unit is taken.
CollectMetadata(mapping, u) ==
    IF u.raised
    THEN Put(mapping, u.path, CreateMinimalMetadata(u.path).map)
    ELSE Put(mapping, u.path, u.map)

\* Faulty variant: a unit that raised leaves an entry without hashes.
CollectHashesKeepsFailed(mapping, u) ==
    IF u.raised THEN Put(mapping, u.path, NoHashes) ELSE Put(mapping, u.path, u.hashes)

\* batch_calculate_hashes: the mapping after the result of a unit is taken.
CollectHashes(mapping, u) ==
    IF u.raised THEN mapping ELSE Put(mapping, u.path, u.hashes)

\* The EXIF processor and the engine as configured, on an empty store.
InitBatch ==
    /\ IdleCache
    /\ IdleValues
    /\ files = [p \in Paths |-> [content |-> StaticContent, mtime |-> 0]]
    /\ now = 0
    /\ batch_size = 1
    /\ imagehash_available = TRUE
    /\ file_records = {}
    /\ pending_records = <<>>
    /\ conn = NoConn
    /\ res = NoResult
    /\ call = Returned("init")
    /\ nstores = 0
    /\ repeated = FALSE
    /\ cache_exif \in BOOLEAN
    /\ exiftool_available \in BOOLEAN
    /\ parallel_workers \in 1..MaxWorkers
    /\ job = NoJob
    /\ units = <<>>
    /\ results = NoResults
    /\ errors = {}
    /\ ncalls = 0

\* batch_extract_metadata(file_paths) or batch_calculate_hashes(file_paths) is
\* called: results = {} and one work unit per element of the list.
StartBatch(op, file_paths) ==
    /\ call.outcome # "running"
    /\ ncalls < MaxCalls
    /\ ncalls' = ncalls + 1
    /\ job' = [op |-> op, paths |-> file_paths]
    /\ units' = [i \in 1..Len(file_paths) |-> Queued(file_paths[i])]
    /\ results' = NoResults
    /\ errors' = {}
    /\ call' = Running(op)
    /\ UNCHANGED <<engineState, cacheVars>>
    /\ UNCHANGED <<cache_exif, exiftool_available, parallel_workers>>
    /\ UNCHANGED valueVars

Extracting == job.op = "batch_extract_metadata"

Hashing == job.op = "batch_calculate_hashes"

\* extract_metadata, first step: with caching enabled, get_cached_exif; a map
\* that is not empty is returned at once, anything else is a miss.
Lookup(i) ==
    /\ Extracting /\ cache_exif /\ MayStart(i)
    /\ \E r \in GetCachedExif(units[i].path) :
           /\ units' = [units EXCEPT ![i] =
                           IF r.value.some /\ r.value.map # EmptyMap
                           THEN [@ EXCEPT !.pc = "finished", !.hit = TRUE,
                                          !.map = r.value.map]
                           ELSE [@ EXCEPT !.pc = "missed"]]
           /\ ret' = r
    /\ UNCHANGED <<engineState, call>>
    /\ UNCHANGED <<missing, dir_mtime, exif_cache, directory_cache, written, entry,
                   touched>>
    /\ UNCHANGED <<cache_exif, exiftool_available, parallel_workers, job, results, errors,
                   ncalls>>
    /\ UNCHANGED valueVars

\* extract_metadata, second step: _extract_with_fallback; the map goes to
\* cache_exif next when caching is enabled and the map is not empty.
Extract(i, exiftool, pillow) ==
    /\ Extracting
    /\ \/ units[i].pc = "missed"
       \/ ~cache_exif /\ MayStart(i)
    /\ LET r == ExtractWithFallback(units[i].path, exiftool, pillow)
       IN  units' = [units EXCEPT ![i] =
                        IF r.raised
                        THEN [@ EXCEPT !.pc = "finished", !.raised = TRUE, !.trace = r.trace]
                        ELSE [@ EXCEPT !.pc = IF cache_exif /\ r.map # EmptyMap
                                              THEN "extracted" ELSE "finished",
                                       !.trace = r.trace, !.map = r.map]]
    /\ UNCHANGED <<engineState, call, cacheVars>>
    /\ UNCHANGED <<cache_exif, exiftool_available, parallel_workers, job, results, errors,
                   ncalls>>
    /\ UNCHANGED valueVars

\* extract_metadata, last step: cache_exif(path, metadata), then return.
CacheWrite(i) ==
    /\ Extracting
    /\ units[i].pc = "extracted"
    /\ exif_cache' = CacheExif(units[i].path, units[i].map)
    /\ units' = [units EXCEPT ![i].pc = "finished"]
    /\ UNCHANGED <<engineState, call>>
    /\ UNCHANGED <<missing, dir_mtime, directory_cache, ret, written, entry, touched>>
    /\ UNCHANGED <<cache_exif, exiftool_available, parallel_workers, job, results, errors,
                   ncalls>>
    /\ UNCHANGED valueVars

\* sqlite3 raises in get_cached_exif or in cache_exif (the database is locked,
\* the disk is full): extract_metadata raises.
StorageError(i) ==
    /\ Extracting /\ cache_exif
    /\ MayStart(i) \/ units[i].pc = "extracted"
    /\ units' = [units EXCEPT ![i] = [@ EXCEPT !.pc = "finished", !.raised = TRUE]]
    /\ UNCHANGED <<engineState, call, cacheVars>>
    /\ UNCHANGED <<cache_exif, exiftool_available, parallel_workers, job, results, errors,
                   ncalls>>
    /\ UNCHANGED valueVars

\* calculate_hashes(path): stat() and open() raise on a file that is gone.
Hash(i) ==
    /\ Hashing /\ MayStart(i)
    /\ units' = [units EXCEPT ![i] =
                    IF units[i].path \in missing
                    THEN [@ EXCEPT !.pc = "finished", !.raised = TRUE]
                    ELSE [@ EXCEPT !.pc = "finished",
                                   !.hashes = CalculateHashes(units[i].path)]]
    /\ UNCHANGED <<engineState, call, cacheVars>>
    /\ UNCHANGED <<cache_exif, exiftool_available, parallel_workers, job, results, errors,
                   ncalls>>
    /\ UNCHANGED valueVars

\* The batch call takes the outcome of a finished unit: results[path] = ...,
\* or the except clause with logger.error.
Collect(i) ==
    /\ units[i].pc = "finished"
    /\ units' = [units EXCEPT ![i].pc = "collected"]
    /\ results' = IF Extracting THEN CollectMetadata(results, units[i])
                  ELSE CollectHashes(results, units[i])
    /\ errors' = IF units[i].raised THEN errors \cup {units[i].path} ELSE errors
    /\ UNCHANGED <<engineState, call, cacheVars>>
    /\ UNCHANGED <<cache_exif, exiftool_available, parallel_workers, job, ncalls>>
    /\ UNCHANGED valueVars

\* return results
ReturnBatch ==
    /\ call = Running(job.op)
    /\ \A i \in 1..Len(units) : units[i].pc = "collected"
    /\ call' = Returned(job.op)
    /\ UNCHANGED <<engineState, cacheVars, batchVars>>
    /\ UNCHANGED valueVars

\* Batch calls of both kinds, on files that may vanish meanwhile.
NextBatch ==
    \/ \E op \in {"batch_extract_metadata", "batch_calculate_hashes"},
          file_paths \in InputLists : StartBatch(op, file_paths)
    \/ \E i \in 1..Len(units) : Lookup(i)
    \/ \E i \in 1..Len(units), exiftool \in TierOutcomes, pillow \in TierOutcomes :
          Extract(i, exiftool, pillow)
    \/ \E i \in 1..Len(units) : CacheWrite(i)
    \/ \E i \in 1..Len(units) : StorageError(i)
    \/ \E i \in 1..Len(units) : Hash(i)
    \/ \E i \in 1..Len(units) : Collect(i)
    \/ ReturnBatch
    \/ \E p \in Rewritten : Unlink(p)

SpecBatch == InitBatch /\ [][NextBatch]_vars

\* The EXIF processor with caching enabled and a pool of MaxWorkers threads.
InitWorkers ==
    /\ InitBatch
    /\ cache_exif
    /\ parallel_workers = MaxWorkers

\* Workers of one batch_extract_metadata call caching their maps while the
\* scanner updates the directory cache and the clock runs.
NextWorkers ==
    \/ Tick
    \/ \E file_paths \in {l \in InputLists : Len(l) > 1} :
          StartBatch("batch_extract_metadata", file_paths)
    \/ \E i \in 1..Len(units) : Lookup(i)
    \/ \E i \in 1..Len(units), exiftool \in TierOutcomes, pillow \in TierOutcomes :
          Extract(i, exiftool, pillow)
    \/ \E i \in 1..Len(units) : CacheWrite(i)
    \/ \E i \in 1..Len(units) : Collect(i)
    \/ ReturnBatch
    \/ \E file_count \in FileCounts : UpdateDirectoryCacheCall(file_count)

SpecWorkers == InitWorkers /\ [][NextWorkers]_vars

\* Something other than cache_exif writes the row of (p, current mtime) with
\* a text that is not JSON, as a truncated write or a manual INSERT does.
InsertInvalidJson(p) ==
    /\ p \notin missing
    /\ exif_cache' =
           CacheInsertOrReplace(exif_cache,
               [CacheRow(p, EmptyMap) EXCEPT !.exif_data = InvalidJson])
    /\ call' = IF call.outcome = "running" THEN call ELSE Returned("environment")
    /\ ret' = IF call.outcome = "running" THEN ret ELSE NoRet
    /\ UNCHANGED engineState
    /\ UNCHANGED <<missing, dir_mtime, directory_cache, written, entry, touched>>
    /\ UNCHANGED batchVars
    /\ UNCHANGED valueVars

\* The EXIF processor with caching enabled, one file at a time.
InitCorrupt ==
    /\ InitBatch
    /\ cache_exif
    /\ parallel_workers = 1

\* extract_metadata and get_cached_exif on a cache whose rows may be
\* overwritten with text that is not JSON.
NextCorrupt ==
    \/ \E p \in Paths : InsertInvalidJson(p)
    \/ \E p \in Paths : GetCachedExifCall(p)
    \/ \E file_paths \in {l \in InputLists : Len(l) > 0} :
          StartBatch("batch_extract_metadata", file_paths)
    \/ \E i \in 1..Len(units) : Lookup(i)
    \/ \E i \in 1..Len(units), exiftool \in TierOutcomes, pillow \in TierOutcomes :
          Extract(i, exiftool, pillow)
    \/ \E i \in 1..Len(units) : CacheWrite(i)
    \/ \E i \in 1..Len(units) : Collect(i)
    \/ ReturnBatch

SpecCorrupt == InitCorrupt /\ [][NextCorrupt]_vars

\* The engine and both caches at rest, on an empty store.
IdleEngine ==
    /\ IdleCache
    /\ IdleBatch
    /\ files = [p \in Paths |-> [content |-> StaticContent, mtime |-> 0]]
    /\ now = 0
    /\ file_records = {}
    /\ pending_records = <<>>
    /\ batch_size = 1
    /\ imagehash_available = TRUE
    /\ conn = NoConn
    /\ res = NoResult
    /\ call = Returned("init")
    /\ nstores = 0
    /\ repeated = FALSE

(* -------------------------- calculate_hashes -------------------------- *)

\* What Image.open and imagehash.average_hash do with a file: raise (the
\* bytes are not an image Pillow can decode) or give a hash.
PerceptualOutcomes == {"raises", "hash"}

\* _calculate_perceptual_hash: None without the library and when anything
\* raises inside; the exception does not leave the method.
CalculatePerceptualHash(p, outcome) ==
    IF ~imagehash_available THEN [raised |-> FALSE, value |-> NoHash]
    ELSE IF outcome = "raises" THEN [raised |-> FALSE, value |-> NoHash]
    ELSE [raised |-> FALSE, value |-> AverageHash(files[p].content)]

\* Faulty variant: neither try block is there and the exception of the
\* perceptual hash leaves calculate_hashes.
CalculateHashesUnguarded(p, outcome) ==
    IF imagehash_available /\ IsImageFile(p) /\ outcome = "raises"
    THEN [raised |-> TRUE, hashes |-> [sha256 |-> 0, size |-> 0, perceptual |-> NoHash]]
    ELSE [raised |-> FALSE, hashes |-> CalculateHashes(p)]

\* calculate_hashes(p) on a file that can be read, whatever the perceptual
\* hash does: size and SHA-256 first, then the perceptual hash of a still
\* image when the library is there, inside a try block of its own.
CalculateHashesWith(p, outcome) ==
    LET perceptual == CalculatePerceptualHash(p, outcome)
    IN  [raised |-> FALSE,
         hashes |-> [sha256 |-> Sha256(files[p].content),
                     size |-> Len(files[p].content),
                     perceptual |-> IF imagehash_available /\ IsImageFile(p)
                                    THEN IF perceptual.raised THEN NoHash
                                         ELSE perceptual.value
                                    ELSE NoHash]]

\* calculate_hashes(p): the caller holds the hashes, or the call raised.
CalculateHashesCall(p, outcome) ==
    /\ ~conn.open
    /\ LET r == CalculateHashesWith(p, outcome)
       IN  /\ res' = [NoResult EXCEPT !.path = p, !.hashes = r.hashes,
                                      !.trace = <<outcome>>]
           /\ call' = [op |-> "calculate_hashes",
                       outcome |-> IF r.raised THEN "raised" ELSE "returned"]
    /\ UNCHANGED <<files, now, file_records, pending_records, batch_size,
                   imagehash_available, conn, nstores, repeated>>
    /\ UNCHANGED <<cacheVars, batchVars, valueVars>>

\* Files of both kinds rewritten and hashed, with and without the library.
NextHashes ==
    \/ Tick
    \/ \E p \in Rewritten, bytes \in Contents : WriteFile(p, bytes)
    \/ \E p \in Paths, outcome \in PerceptualOutcomes : CalculateHashesCall(p, outcome)

SpecHashes == Init /\ [][NextHashes]_vars

(* ------------------------- the two SHA-256 paths ---------------------- *)

\* The files hashed both ways have at most MaxLen bytes.
MaxLen == 4

\* A caller hashes the same file at most MaxRepeats times.
MaxRepeats == 2

\* f.read(4096) returns at most ReadSize bytes: the 4096 of the code, scaled
\* down to files of MaxLen bytes.
ReadSize == 2

\* file_size > 1024 * 1024: the threshold of the memory-mapped path, scaled
\* down likewise.
MmapThreshold == 2

\* Faulty variant: a new hasher for every chunk, so that only the last chunk
\* counts.
UpdateFromScratch(state, data) == Sha256(data)

\* hashlib's update(data): the running digest after the bytes of data, from
\* the running digest before them; Sha256(bytes) is Update(0, bytes).
RECURSIVE Update(_, _)
Update(state, data) ==
    IF data = <<>> THEN state
    ELSE Update(3 * state + Head(data) + 1, Tail(data))

\* f.read(n): the next n bytes, fewer at the end of the file, none after it.
Read(rest, n) == SubSeq(rest, 1, IF Len(rest) < n THEN Len(rest) ELSE n)

\* for chunk in iter(lambda: f.read(4096), b""): hash_sha256.update(chunk)
RECURSIVE ReadLoop(_, _)
ReadLoop(state, rest) ==
    LET chunk == Read(rest, ReadSize)
    IN  IF chunk = <<>> THEN state
        ELSE ReadLoop(Update(state, chunk), SubSeq(rest, Len(chunk) + 1, Len(rest)))

\* _calculate_sha256_standard: the hexdigest after the read loop.
Sha256Standard(content) == ReadLoop(0, content)

\* _calculate_sha256_mmap: the hexdigest after one update with the whole
\* mapping.
Sha256Mmap(content) == Update(0, content)

\* calculate_hashes, the choice between the two: the path taken and the
\* sha256 it gives.
CalculateSha256(content, memory_mapped_hashing) ==
    IF memory_mapped_hashing /\ Len(content) > MmapThreshold
    THEN [path |-> "mmap", sha256 |-> Sha256Mmap(content)]
    ELSE [path |-> "standard", sha256 |-> Sha256Standard(content)]

\* The byte strings of length n over two byte values.
RECURSIVE BytesOfLen(_)
BytesOfLen(n) ==
    IF n = 0 THEN {<<>>}
    ELSE {Append(bytes, b) : bytes \in BytesOfLen(n - 1), b \in {0, 1}}

\* The files hashed: every content of at most MaxLen bytes.
LongContents == UNION {BytesOfLen(n) : n \in 0..MaxLen}

\* A file that nobody modifies, about to be hashed.
InitDigest ==
    /\ IdleEngine
    /\ input \in [content : LongContents]
    /\ output = <<>>

\* calculate_hashes on the file, by an engine configured with or without
\* memory-mapped hashing: the sha256 it puts in the FileHashes.
CalculateSha256Call(memory_mapped_hashing) ==
    /\ Len(output) < MaxRepeats
    /\ output' = Append(output,
                        [memory_mapped_hashing |-> memory_mapped_hashing]
                            @@ CalculateSha256(input.content, memory_mapped_hashing))
    /\ call' = Returned("calculate_hashes")
    /\ UNCHANGED <<engineState, cacheVars, batchVars, input>>

NextDigest == \E memory_mapped_hashing \in BOOLEAN : CalculateSha256Call(memory_mapped_hashing)

SpecDigest == InitDigest /\ [][NextDigest]_vars

(* ----------------------------- FileHashes ----------------------------- *)

\* len(self.sha256) != 64
Sha256Length == 64

\* A text is the sequence of its characters.
Repeat(c, n) == [i \in 1..n |-> c]

HexDigits ==
    {"0", "1", "2", "3", "4", "5", "6", "7", "8", "9",
     "a", "b", "c", "d", "e", "f", "A", "B", "C", "D", "E", "F"}

IsHex(text) == \A i \in 1..Len(text) : text[i] \in HexDigits

\* The sha256 arguments tried: texts of one repeated character, a digit, a
\* letter that is a hexadecimal digit, one that is not, and a blank, of the
\* lengths around Sha256Length; and a digest with one wrong character at the end.
Sha256Texts ==
    {Repeat(c, n) : c \in {"0", "a", "g", " "},
                    n \in {0, 1, Sha256Length - 1, Sha256Length, Sha256Length + 1}}
        \cup {Append(Repeat("a", Sha256Length - 1), "g")}

\* The size arguments tried.
Sizes == {-1, 0, 1}

\* FileHashes(sha256, size, perceptual): the dataclass constructor with
\* __post_init__.  An empty or wrongly sized sha256 and a negative size raise
\* ValueError; anything else gives the value.
FileHashes(sha256, size, perceptual) ==
    IF sha256 = <<>> \/ Len(sha256) # Sha256Length
    THEN [raised |-> TRUE, error |-> "Invalid SHA-256 hash"]
    ELSE IF size < 0
    THEN [raised |-> TRUE, error |-> "File size cannot be negative"]
    ELSE [raised |-> FALSE,
          value |-> [sha256 |-> sha256, size |-> size, perceptual |-> perceptual]]

\* A caller about to construct a FileHashes from arguments of its choice.
InitFileHashes ==
    /\ IdleEngine
    /\ input \in [sha256 : Sha256Texts, size : Sizes, perceptual : {NoHash, "ahash0"}]
    /\ output = <<>>

\* FileHashes(sha256=..., size=..., perceptual=...)
FileHashesCall ==
    /\ call = Returned("init")
    /\ output' = FileHashes(input.sha256, input.size, input.perceptual)
    /\ call' = [op |-> "FileHashes",
                outcome |-> IF output'.raised THEN "raised" ELSE "returned"]
    /\ UNCHANGED <<engineState, cacheVars, batchVars, input>>

NextFileHashes == FileHashesCall

SpecFileHashes == InitFileHashes /\ [][NextFileHashes]_vars

(* ----------------------- metadata normalisation ----------------------- *)

\* A float: a finite ratio, or infinity.
Num(n, d) == [special |-> "finite", num |-> n, den |-> d]

Inf == [special |-> "inf", num |-> 0, den |-> 1]

\* A piece of text between slashes: one float() accepts (a numeral, "inf")
\* or one it rejects.
Tok(f) == [numeral |-> TRUE, float |-> f]

Junk == [numeral |-> FALSE, float |-> Num(0, 1)]

\* The values a numeric tag may hold.
IntValue(n) == [type |-> "int", parts |-> <<Tok(Num(n, 1))>>]

FloatValue(f) == [type |-> "float", parts |-> <<Tok(f)>>]

StrValue(parts) == [type |-> "str", parts |-> parts]

NoneValue == [type |-> "NoneType", parts |-> <<>>]

ListValue == [type |-> "list", parts |-> <<>>]

\* None, 42, 42.7, inf, "42", "100/1", "2.8/1", "28/0", "invalid", "1/2/3",
\* "inf", "x/1", and a list.
NumericValues ==
    {NoneValue, IntValue(42), FloatValue(Num(427, 10)), FloatValue(Inf),
     StrValue(<<Tok(Num(42, 1))>>),
     StrValue(<<Tok(Num(100, 1)), Tok(Num(1, 1))>>),
     StrValue(<<Tok(Num(28, 10)), Tok(Num(1, 1))>>),
     StrValue(<<Tok(Num(28, 1)), Tok(Num(0, 1))>>),
     StrValue(<<Junk>>),
     StrValue(<<Tok(Num(1, 1)), Tok(Num(2, 1)), Tok(Num(3, 1))>>),
     StrValue(<<Tok(Inf)>>),
     StrValue(<<Junk, Tok(Num(1, 1))>>),
     ListValue}

\* What an expression gives: a value, None, or an exception.
Ok(v) == [raised |-> FALSE, error |-> "", absent |-> FALSE, value |-> v]

Absent == [raised |-> FALSE, error |-> "", absent |-> TRUE, value |-> Num(0, 1)]

Raise(error) == [raised |-> TRUE, error |-> error, absent |-> TRUE, value |-> Num(0, 1)]

\* float(text)
ToFloat(token) == IF token.numeral THEN Ok(token.float) ELSE Raise("ValueError")

\* a / b on floats
Divide(a, b) ==
    IF b.special = "finite" /\ b.num = 0 THEN Raise("ZeroDivisionError")
    ELSE IF a.special = "inf" THEN Ok(Inf)
    ELSE IF b.special = "inf" THEN Ok(Num(0, 1))
    ELSE Ok(Num(a.num * b.den, a.den * b.num))

\* int(x) on a float: truncation; infinity has no integer.
ToInt(f) ==
    IF f.special = "inf" THEN Raise("OverflowError")
    ELSE Ok(Num(f.num \div f.den, 1))

\* except (ValueError, ZeroDivisionError): pass, and then return None.
Except(r) ==
    IF r.raised /\ r.error \in {"ValueError", "ZeroDivisionError"} THEN Absent ELSE r

\* float(parts[0]) / float(parts[1]) for a text with one slash, float(value)
\* for a text without; a text with more slashes is no numeral.
StrToFloat(parts) ==
    IF Len(parts) = 2
    THEN LET a == ToFloat(parts[1])
             b == ToFloat(parts[2])
         IN  IF a.raised THEN a
             ELSE IF b.raised THEN b
             ELSE Divide(a.value, b.value)
    ELSE IF Len(parts) = 1 THEN ToFloat(parts[1])
    ELSE Raise("ValueError")

\* _safe_int
SafeInt(value) ==
    IF value.type = "NoneType" THEN Absent
    ELSE IF value.type \in {"int", "float"}
    THEN Except(ToInt(value.parts[1].float))
    ELSE IF value.type = "str"
    THEN LET f == StrToFloat(value.parts)
         IN  Except(IF f.raised THEN f ELSE ToInt(f.value))
    ELSE Absent

\* _safe_float
SafeFloat(value) ==
    IF value.type = "NoneType" THEN Absent
    ELSE IF value.type \in {"int", "float"}
    THEN Except(Ok(value.parts[1].float))
    ELSE IF value.type = "str"
    THEN Except(StrToFloat(value.parts))
    ELSE Absent

\* A date text: surrounding blanks or not, the separator of the date part, a
\* time part or not; or words that are no date at all.
DateText(blanks, sep, time, date) ==
    [blanks |-> blanks, sep |-> sep, time |-> time, date |-> date]

DateTexts ==
    {DateText(blanks, sep, time, date) :
        blanks \in BOOLEAN, sep \in {":", "-", "/"}, time \in BOOLEAN, date \in {TRUE}}
    \cup {DateText(blanks, " ", FALSE, FALSE) : blanks \in BOOLEAN}

\* '%Y:%m:%d %H:%M:%S', '%Y-%m-%d %H:%M:%S', '%Y:%m:%d', '%Y-%m-%d'
Formats ==
    <<[sep |-> ":", time |-> TRUE], [sep |-> "-", time |-> TRUE],
      [sep |-> ":", time |-> FALSE], [sep |-> "-", time |-> FALSE]>>

\* date_str.strip()
Strip(text) == [text EXCEPT !.blanks = FALSE]

\* datetime.strptime(text, fmt) does not raise ValueError.
Matches(text, fmt) ==
    text.date /\ ~text.blanks /\ text.sep = fmt.sep /\ text.time = fmt.time

\* _parse_datetime: the isoformat of the first format that matches; if none
\* does, the text as it came, stripped.
ParseDatetime(date_str) ==
    IF \E i \in 1..Len(Formats) : Matches(Strip(date_str), Formats[i])
    THEN [kind |-> "isoformat", text |-> DateText(FALSE, "-", TRUE, TRUE)]
    ELSE [kind |-> "text", text |-> Strip(date_str)]

\* The part of _normalize_exiftool_metadata that converts: a date tag that
\* is there, and two numeric tags.
Normalize(raw) ==
    LET iso == SafeInt(raw.ISO)
        fnumber == SafeFloat(raw.FNumber)
    IN  IF iso.raised THEN [raised |-> TRUE, error |-> iso.error]
        ELSE IF fnumber.raised THEN [raised |-> TRUE, error |-> fnumber.error]
        ELSE [raised |-> FALSE, error |-> "", ISO |-> iso, FNumber |-> fnumber,
              DateTime |-> ParseDatetime(raw.DateTime)]

\* Raw tags as a reader delivers them.
InitNormalize ==
    /\ IdleEngine
    /\ input \in [ISO : NumericValues, FNumber : NumericValues, DateTime : DateTexts]
    /\ output = <<>>

\* _normalize_exiftool_metadata(raw_metadata)
NormalizeCall ==
    /\ call = Returned("init")
    /\ output' = Normalize(input)
    /\ call' = [op |-> "_normalize_exiftool_metadata",
                outcome |-> IF output'.raised THEN "raised" ELSE "returned"]
    /\ UNCHANGED <<engineState, cacheVars, batchVars, input>>

NextNormalize == NormalizeCall

SpecNormalize == InitNormalize /\ [][NextNormalize]_vars

(* ------------------ a failing store and missing files ------------------ *)

\* The engine with the storage layer failing at will and files being
\* removed between a check and the store that follows it.
NextOutage ==
    \/ \E p \in Paths : Unlink(p)
    \/ \E p \in Paths : CheckDuplicateCall(p)
    \/ StoreFileRecord
    \/ FlushPendingRecords
    \/ DbExecute
    \/ DbCommit
    \/ DbError

SpecOutage == Init /\ [][NextOutage]_vars

(* --------------------------- the worker pool --------------------------- *)

\* Input lists up to one path more than the pool has workers.
PoolLists == {<<>>} \cup {<<p>> : p \in Paths} \cup {<<p, q, p>> : p \in Paths, q \in Paths}

\* A worker (or the loop) enters calculate_hashes(path).
HashBegin(i) ==
    /\ Hashing /\ MayStart(i)
    /\ units' = [units EXCEPT ![i].pc = "hashing"]
    /\ UNCHANGED <<engineState, call, cacheVars>>
    /\ UNCHANGED <<cache_exif, exiftool_available, parallel_workers, job, results, errors,
                   ncalls>>
    /\ UNCHANGED valueVars

\* calculate_hashes(path) returns or raises.
HashEnd(i) ==
    /\ Hashing /\ units[i].pc = "hashing"
    /\ units' = [units EXCEPT ![i] =
                    IF units[i].path \in missing
                    THEN [@ EXCEPT !.pc = "finished", !.raised = TRUE]
                    ELSE [@ EXCEPT !.pc = "finished",
                                   !.hashes = CalculateHashes(units[i].path)]]
    /\ UNCHANGED <<engineState, call, cacheVars>>
    /\ UNCHANGED <<cache_exif, exiftool_available, parallel_workers, job, results, errors,
                   ncalls>>
    /\ UNCHANGED valueVars

\* Caching on, no ExifTool, one worker or more.
InitPool ==
    /\ InitBatch
    /\ cache_exif
    /\ ~exiftool_available

\* One batch call of either kind, its units taken up by the workers of the
\* pool or by the loop.
NextPool ==
    \/ \E op \in {"batch_extract_metadata", "batch_calculate_hashes"},
          file_paths \in PoolLists : StartBatch(op, file_paths)
    \/ \E i \in 1..Len(units) : Lookup(i)
    \/ \E i \in 1..Len(units), pillow \in TierOutcomes : Extract(i, "raises", pillow)
    \/ \E i \in 1..Len(units) : CacheWrite(i)
    \/ \E i \in 1..Len(units) : HashBegin(i)
    \/ \E i \in 1..Len(units) : HashEnd(i)
    \/ \E i \in 1..Len(units) : Collect(i)
    \/ ReturnBatch

SpecPool == InitPool /\ [][NextPool]_vars

(* ----------------- one batch call, with and without pool ----------------- *)

\* What ExifTool and Pillow do with a file: a property of the file.
ReaderOutcomes ==
    {[exiftool |-> "raises", pillow |-> "metadata"],
     [exiftool |-> "metadata", pillow |-> "metadata"],
     [exiftool |-> "nothing", pillow |-> "nothing"]}

\* The exif_cache table an earlier run may have left: nothing, a row of the
\* file as it is now, or such a row with a text that is not JSON.
CacheTables ==
    {{}} \cup {{[CacheRow(p, m) EXCEPT !.exif_data = t]} :
                  p \in Rewritten, m \in {MapOf("Canon", "R5")},
                  t \in {JsonDumps(MapOf("Canon", "R5")), InvalidJson}}

\* The files, the store, the readers and the configuration a batch call
\* finds; input keeps what the call found.
InitOnce ==
    /\ files = [p \in Paths |-> [content |-> StaticContent, mtime |-> 0]]
    /\ now = 0
    /\ missing \in SUBSET Rewritten
    /\ dir_mtime = 0
    /\ exif_cache \in CacheTables
    /\ directory_cache = {}
    /\ ret = NoRet
    /\ written = [p \in Paths |-> [m \in 0..MaxTime |-> None]]
    /\ entry = [p \in Paths |-> NoRow]
    /\ touched = {}
    /\ batch_size = 1
    /\ imagehash_available = TRUE
    /\ file_records = {}
    /\ pending_records = <<>>
    /\ conn = NoConn
    /\ res = NoResult
    /\ call = Returned("init")
    /\ nstores = 0
    /\ repeated = FALSE
    /\ cache_exif \in BOOLEAN
    /\ exiftool_available \in BOOLEAN
    /\ parallel_workers \in 1..MaxWorkers
    /\ job = NoJob
    /\ units = <<>>
    /\ results = NoResults
    /\ errors = {}
    /\ ncalls = 0
    /\ \E readers \in [Paths -> ReaderOutcomes] :
           input = [readers |-> readers, exif_cache |-> exif_cache]
    /\ output = <<>>

\* One batch call on that state, nothing else touching the files or the
\* store meanwhile; the readers do with a file what they do with it.
NextOnce ==
    \/ \E op \in {"batch_extract_metadata", "batch_calculate_hashes"},
          file_paths \in InputLists : ncalls = 0 /\ StartBatch(op, file_paths)
    \/ \E i \in 1..Len(units) : Lookup(i)
    \/ \E i \in 1..Len(units) :
          Extract(i, input.readers[units[i].path].exiftool,
                     input.readers[units[i].path].pillow)
    \/ \E i \in 1..Len(units) : CacheWrite(i)
    \/ \E i \in 1..Len(units) : Hash(i)
    \/ \E i \in 1..Len(units) : Collect(i)
    \/ ReturnBatch

SpecOnce == InitOnce /\ [][NextOnce]_vars

(* ------------------ reading calls on a store in use ------------------ *)

\* A store with a committed record and a buffered one, caching on, a pool of
\* MaxWorkers threads.
InitFrame ==
    /\ IdleCache
    /\ IdleValues
    /\ files = [p \in Paths |->
                   [content |-> IF p \in Rewritten THEN <<0>> ELSE StaticContent,
                    mtime |-> 0]]
    /\ now = 0
    /\ batch_size = MaxBatch
    /\ imagehash_available \in BOOLEAN
    /\ file_records = {StoredRecord(p) : p \in Paths \ Rewritten}
    /\ pending_records \in {<<StoredRecord(p)>> : p \in Rewritten}
    /\ conn = NoConn
    /\ res = NoResult
    /\ call = Returned("init")
    /\ nstores = MaxBatch
    /\ repeated = FALSE
    /\ cache_exif = TRUE
    /\ exiftool_available = FALSE
    /\ parallel_workers = MaxWorkers
    /\ job = NoJob
    /\ units = <<>>
    /\ results = NoResults
    /\ errors = {}
    /\ ncalls = 0

\* Checks, batch calls and their units, between cache_exif calls and flushes
\* of the caller.
NextFrame ==
    \/ \E p \in Paths :
          call.outcome # "running" /\ CacheExifCall(p, MapOf("Canon", "R5"))
    \/ \E p \in Paths : call.outcome # "running" /\ CheckDuplicateCall(p)
    \/ call.outcome # "running" /\ FlushPendingRecords
    \/ DbExecute
    \/ DbCommit
    \/ \E op \in {"batch_extract_metadata", "batch_calculate_hashes"},
          file_paths \in {l \in InputLists : Len(l) > 0} : StartBatch(op, file_paths)
    \/ \E i \in 1..Len(units) : Lookup(i)
    \/ \E i \in 1..Len(units), pillow \in TierOutcomes : Extract(i, "raises", pillow)
    \/ \E i \in 1..Len(units) : CacheWrite(i)
    \/ \E i \in 1..Len(units) : Hash(i)
    \/ \E i \in 1..Len(units) : Collect(i)
    \/ ReturnBatch

SpecFrame == InitFrame /\ [][NextFrame]_vars

(* ----------------- files rewritten between the calls ----------------- *)

\* The engine on a file that is rewritten at most once in a second of the
\* clock, so that the file has had one content at each mtime.
NextRewrite ==
    \/ Tick
    \/ \E p \in Rewritten, bytes \in Contents :
          files[p].mtime < now /\ WriteFile(p, bytes)
    \/ \E p \in Paths : CheckDuplicateCall(p)
    \/ StoreFileRecord
    \/ FlushPendingRecords
    \/ DbExecute
    \/ DbCommit

SpecRewrite == Init /\ [][NextRewrite]_vars

(* ------------------------------- claims ------------------------------- *)

\* The state right after a check_duplicate call returned: res is its result
\* and the files and the store are the ones it read.
JustChecked == call = Returned("check_duplicate")

Candidate == files[res.path]

InTrace(stage) == \E i \in 1..Len(res.trace) : res.trace[i] = stage

StoredHashes == {r.sha256_hash : r \in file_records}

\* C1: whenever check_duplicate returns DUPLICATE, a committed record holds
\* the SHA-256 of the bytes the file has at the time of the check.
NoFalseDuplicate ==
    (JustChecked /\ res.status = StatusDuplicate)
        => Sha256(Candidate.content) \in StoredHashes

\* C2: check_duplicate returns NEW only if no store_file_record call was
\* accepted before for this content: no record with its SHA-256 is committed
\* or waiting in the pending buffer.
NoFalseNew ==
    (JustChecked /\ res.status = StatusNew)
        => Sha256(Candidate.content) \notin (StoredHashes \cup HashesOf(pending_records))

ExactDuplicateOfOtherPath ==
    JustChecked =>
        \A r \in file_records :
            (/\ r.source_path # res.path
             /\ files[r.source_path].content = Candidate.content
             /\ r.sha256_hash = Sha256(Candidate.content))
                => /\ res.status = StatusDuplicate
                   /\ res.existing_file = r.source_path
                   /\ res.hashes.sha256 = r.sha256_hash

UnchangedRecords ==
    {r \in file_records :
        r.source_path = res.path /\ r.file_mtime = Candidate.mtime}

\* C5: is_file_unchanged is true exactly when a committed record has the
\* candidate's path and current mtime, and then check_duplicate returns
\* DUPLICATE of that path with the hashes of such a record, calculate_hashes
\* not being called.
UnchangedFastPath ==
    JustChecked =>
        /\ res.unchanged <=> UnchangedRecords # {}
        /\ UnchangedRecords # {} =>
              /\ res.status = StatusDuplicate
              /\ res.existing_file = res.path
              /\ \E r \in UnchangedRecords :
                     res.hashes = [sha256 |-> r.sha256_hash, size |-> r.file_size,
                                   perceptual |-> r.perceptual_hash]
              /\ ~InTrace("calculate_hashes")

\* C5 witness: a check answered from the record of the unchanged file.
FastPathTaken ==
    JustChecked /\ res.unchanged /\ res.trace = <<"path_mtime_lookup">>

\* C6: when no committed record has the candidate's size, check_duplicate
\* returns NEW with freshly computed hashes and no existing file, without the
\* SHA-256 comparison and without the perceptual lookup.
NewWhenNoSizeMatch ==
    (JustChecked /\ \A r \in file_records : r.file_size # Len(Candidate.content))
        => /\ res.status = StatusNew
           /\ res.existing_file = NoPath
           /\ res.hashes = CalculateHashes(res.path)
           /\ ~InTrace("sha256_compare")
           /\ ~InTrace("perceptual_lookup")

SameSizeExact ==
    {r \in file_records :
        /\ r.file_size = Len(Candidate.content)
        /\ r.sha256_hash = Sha256(Candidate.content)}

\* C7: once the hash comparison is reached, a same-size record with the
\* candidate's sha256 makes the result DUPLICATE of such a record's path;
\* SIMILAR is never returned while such a record exists.
ExactMatchFirst ==
    JustChecked =>
        /\ (InTrace("sha256_compare") /\ SameSizeExact # {})
              => /\ res.status = StatusDuplicate
                 /\ res.existing_file \in {r.source_path : r \in SameSizeExact}
        /\ res.status = StatusSimilar => SameSizeExact = {}

\* C7 witness: DUPLICATE by hash comparison while a record also carries the
\* candidate's perceptual hash.
ExactBeatsPerceptual ==
    /\ JustChecked
    /\ res.status = StatusDuplicate
    /\ InTrace("sha256_compare")
    /\ res.hashes.perceptual # NoHash
    /\ \E r \in file_records : r.perceptual_hash = res.hashes.perceptual

\* C8 as claimed: SIMILAR only with a perceptual hash computed, no same-size
\* record of the candidate's sha256, and a record of the candidate's size with
\* the same perceptual hash, whose path is the existing file.
SimilarOnlySameSize ==
    (JustChecked /\ res.status = StatusSimilar)
        => /\ res.hashes.perceptual # NoHash
           /\ SameSizeExact = {}
           /\ \E r \in file_records :
                  /\ r.file_size = res.hashes.size
                  /\ r.perceptual_hash = res.hashes.perceptual
                  /\ r.source_path = res.existing_file

\* C8 amended: SIMILAR only with a perceptual hash computed, some record of
\* the candidate's size in the store, none of them with the candidate's
\* sha256, and a record of any size with the same perceptual hash, whose path
\* is the existing file.
SimilarOnlyPerceptualMatch ==
    (JustChecked /\ res.status = StatusSimilar)
        => /\ res.hashes.perceptual # NoHash
           /\ res.hashes.perceptual = AverageHash(Candidate.content)
           /\ SameSizeExact = {}
           /\ \E r \in file_records : r.file_size = res.hashes.size
           /\ \E r \in file_records :
                  /\ r.perceptual_hash = res.hashes.perceptual
                  /\ r.source_path = res.existing_file

\* C8 witness: a SIMILAR verdict.
SimilarReturned == JustChecked /\ res.status = StatusSimilar

\* C9: after N store_file_record calls with pairwise distinct hashes,
\* 1 < batch_size < N, and a flush_pending_records, the store holds exactly N
\* rows and the pending buffer is empty.
BatchIntegrity ==
    (/\ call = Returned("flush_pending_records")
     /\ batch_size > 1
     /\ nstores > batch_size
     /\ ~repeated)
        => /\ Cardinality(file_records) = nstores
           /\ pending_records = <<>>

\* C9 witness: the flush after more stores of distinct hashes than batch_size.
FlushedAfterBatches ==
    /\ call = Returned("flush_pending_records")
    /\ batch_size > 1
    /\ nstores > batch_size
    /\ ~repeated

\* The table after every record of a batch has been inserted, in order.
RECURSIVE BatchApplied(_, _)
BatchApplied(table, records) ==
    IF records = <<>> THEN table
    ELSE BatchApplied(InsertOrReplace(table, Head(records)), Tail(records))

\* C10: a step leaves the committed table as it was or, when the store
\* operation returns, installs its whole batch; an operation that raises
\* persists no record of its batch.
BatchAtomic ==
    [][\/ file_records' = file_records
       \/ /\ conn.open
          /\ call'.outcome = "returned"
          /\ file_records' = BatchApplied(file_records, conn.batch)]_vars

\* C10 witness: a batch of several records partly executed and not committed.
BatchPartlyExecuted ==
    /\ conn.open
    /\ Len(conn.batch) >= 2
    /\ Len(conn.todo) = 1
    /\ conn.work # file_records

\* A record of the batch that repeats a store: the same row is committed
\* already, or the batch holds it twice.
StoredTwice(i) ==
    \/ conn.batch[i] \in file_records
    \/ \E j \in 1..Len(conn.batch) : j # i /\ conn.batch[j] = conn.batch[i]

JustLookedUp == call = Returned("get_cached_exif")

\* C12: get_cached_exif(p) returns a map only if that map is the one the
\* latest cache_exif for p stored while p had the mtime it has now, and it
\* returns None when no cache_exif was made for p under that mtime or the
\* file cannot be stat'ed.
CachedOnlyForCurrentMtime ==
    JustLookedUp =>
        /\ ret.value.some =>
              /\ ret.path \notin missing
              /\ ret.value = written[ret.path][files[ret.path].mtime]
        /\ (\/ ret.path \in missing
            \/ ~written[ret.path][files[ret.path].mtime].some) => ret.value = None

\* C12 witness: p was cached, its mtime then advanced, and the lookup gives
\* None.
MissAfterMtimeAdvanced ==
    /\ JustLookedUp
    /\ ret.path \in touched
    /\ ret.path \notin missing
    /\ files[ret.path].mtime > entry[ret.path].file_mtime
    /\ ret.value = None

\* C13 as claimed: once the mtime of p has changed after the latest
\* cache_exif for p, in whatever steps and directions, get_cached_exif(p) does
\* not return the entry that call wrote.
EntryUnreachableAfterChange ==
    (JustLookedUp /\ ret.path \in touched) => ret.row # entry[ret.path]

\* C13 amended: with no new cache_exif for p, get_cached_exif(p) returns the
\* entry of the latest cache_exif for p exactly when p can be stat'ed, its
\* mtime now equals the mtime the entry was cached under, and the row is still
\* in the table; while the mtime differs the entry is unmatched, and an mtime
\* set back to the cached value matches it again.
EntryMatchedByMtime ==
    (JustLookedUp /\ entry[ret.path] # NoRow) =>
        (ret.row = entry[ret.path]
            <=> /\ ret.path \notin missing
                /\ files[ret.path].mtime = entry[ret.path].file_mtime
                /\ entry[ret.path] \in exif_cache)

\* C13 witness: the mtime of p changed and came back to the cached value, and
\* the lookup returns the entry.
EntryReachedAgain ==
    /\ JustLookedUp
    /\ ret.path \in touched
    /\ ret.row = entry[ret.path]
    /\ ret.value.some

\* C15: a cleanup_old_cache_entries call, whatever its days_old, leaves the
\* rows of file_records and the pending buffer as they were, and with
\* days_old = 0 it leaves no row in exif_cache and none in directory_cache.
CleanupFrame ==
    [][call'.op = "cleanup_old_cache_entries" =>
          /\ file_records' = file_records
          /\ pending_records' = pending_records
          /\ ret'.arg = 0 => (exif_cache' = {} /\ directory_cache' = {})]_vars

\* C15 witness: cleanup_old_cache_entries(0) has returned after a cache_exif,
\* with a record committed and another one pending.
CleanedUpEverything ==
    /\ call = Returned("cleanup_old_cache_entries")
    /\ ret.arg = 0
    /\ \E p \in Paths, t \in 0..MaxTime : written[p][t].some
    /\ exif_cache = {}
    /\ file_records # {}
    /\ pending_records # <<>>

UnitIds == 1..Len(units)

InputPaths == {job.paths[i] : i \in 1..Len(job.paths)}

\* What _create_minimal_metadata can give for p: with and without stat().
MinimalMaps(p) ==
    {MinimalMap(p, ToString(IsoFormat(files[p].mtime)), ToString(Len(files[p].content))),
     MinimalMap(p, ToString(IsoFormat(now)), "0")}

TierOrder ==
    IF exiftool_available THEN <<"exiftool", "pillow", "filesystem", "minimal">>
    ELSE <<"pillow", "filesystem", "minimal">>

\* C18: the tiers a unit invoked are an initial part of the fixed order
\* ExifTool, Pillow, filesystem (from the first tier available); every tier
\* but the last one invoked raised or returned an empty map, and the last one
\* returned metadata, so that no tier follows the first that succeeds.
ChainOrder ==
    \A i \in UnitIds :
        LET trace == units[i].trace
        IN  trace # <<>> =>
                /\ Len(trace) <= Len(TierOrder)
                /\ \A k \in 1..Len(trace) : trace[k].tier = TierOrder[k]
                /\ \A k \in 1..(Len(trace) - 1) : trace[k].outcome \in {"raised", "empty"}
                /\ ~units[i].hit

\* C18 witness: ExifTool failed, Pillow returned metadata, and the chain ended
\* there.
ChainStoppedAtPillow ==
    \E i \in UnitIds :
        /\ Len(units[i].trace) = 2
        /\ units[i].trace[1] \in {[tier |-> "exiftool", outcome |-> "raised"],
                                  [tier |-> "exiftool", outcome |-> "empty"]}
        /\ units[i].trace[2] = [tier |-> "pillow", outcome |-> "metadata"]
        /\ units[i].map = PillowMap(units[i].path)

FirstStep(i) ==
    /\ units[i].pc = "queued"
    /\ units'[i].pc # "queued"
    /\ ~units'[i].raised

\* C20: with caching enabled, the first step of extract_metadata is the cache
\* lookup and runs no tier; a hit returns the map of the cached row and never
\* runs a tier; a miss ends with the extracted map stored under the path and
\* its current mtime; and a lookup made after another extract_metadata of the
\* same file has returned is a hit.
CacheFirst ==
    [][(Extracting /\ cache_exif /\ Len(units') = Len(units)) =>
          \A i \in UnitIds :
              LET p == units[i].path
              IN  /\ FirstStep(i) =>
                         /\ units'[i].trace = <<>>
                         /\ units'[i].hit =>
                                /\ units'[i].pc = "finished"
                                /\ \E r \in CachedRows(p) :
                                       units'[i].map = JsonLoads(r.exif_data)
                         /\ (\E j \in UnitIds :
                                /\ j # i
                                /\ units[j].path = p
                                /\ units[j].pc \in {"finished", "collected"}
                                /\ ~units[j].raised
                                /\ p \notin missing) => units'[i].hit
                  /\ units[i].hit => units'[i].trace = <<>>
                  /\ (/\ units[i].pc = "extracted"
                      /\ units'[i].pc = "finished"
                      /\ ~units'[i].raised
                      /\ p \notin missing)
                         => CacheRow(p, units[i].map) \in exif_cache']_vars

\* C20 witness: a unit was answered from the cache with the map another unit
\* of the same file had got from the filesystem tier.
HitOnFilesystemMap ==
    \E i \in UnitIds, j \in UnitIds :
        /\ i # j
        /\ units[i].path = units[j].path
        /\ units[i].hit
        /\ units[i].trace = <<>>
        /\ units[j].trace # <<>>
        /\ units[j].trace[Len(units[j].trace)].tier = "filesystem"
        /\ units[i].map = units[j].map

\* C14: after every step exif_cache holds at most one row per
\* (file_path, file_mtime) and directory_cache at most one row per
\* directory_path; the row a worker's cache_exif writes is then the only row
\* of its key, and the row update_directory_cache writes is the only row of
\* the directory.
CacheKeysUnique ==
    [][/\ \A r1 \in exif_cache', r2 \in exif_cache' :
              (r1.file_path = r2.file_path /\ r1.file_mtime = r2.file_mtime) => r1 = r2
       /\ \A d1 \in directory_cache', d2 \in directory_cache' :
              d1.directory_path = d2.directory_path => d1 = d2
       /\ \A i \in 1..Len(units) :
              (/\ Len(units') = Len(units)
               /\ units[i].pc = "extracted"
               /\ units'[i].pc = "finished"
               /\ ~units'[i].raised)
                  => {r \in exif_cache' :
                         /\ r.file_path = units[i].path
                         /\ r.file_mtime = files[units[i].path].mtime}
                       = {CacheRow(units[i].path, units[i].map)}
       /\ call'.op = "update_directory_cache" =>
              \E file_count \in FileCounts :
                  directory_cache' =
                      {[directory_path |-> Dir, scan_timestamp |-> now,
                        file_count |-> file_count, last_modified |-> dir_mtime]}]_vars

\* C14 witness: two workers missed the cache for the same file, extracted
\* different maps and both wrote them; one row is there for the file, and the
\* directory has been cached as well.
TwoWorkersOneRow ==
    \E i \in UnitIds, j \in UnitIds :
        /\ i # j
        /\ units[i].path = units[j].path
        /\ units[i].trace # <<>> /\ units[j].trace # <<>>
        /\ units[i].pc \in {"finished", "collected"}
        /\ units[j].pc \in {"finished", "collected"}
        /\ units[i].map # units[j].map
        /\ Cardinality({r \in exif_cache : r.file_path = units[i].path}) = 1
        /\ directory_cache # {}

\* C21: a cache_exif call on a path whose stat() raises returns and leaves
\* exif_cache as it was, and a get_cached_exif on that path right after it
\* returns None.
CacheExifSilentOnStatError ==
    [][/\ (call'.op = "cache_exif" /\ ret'.path \in missing) =>
              /\ call'.outcome = "returned"
              /\ exif_cache' = exif_cache
       /\ (/\ call.op = "cache_exif" /\ ret.path \in missing
           /\ call'.op = "get_cached_exif" /\ ret'.path = ret.path) =>
              /\ call'.outcome = "returned"
              /\ ret'.value = None]_vars

\* C21 witness: cache_exif has returned for a file that was cached while it
\* could be stat'ed and has been removed since; the earlier row is still there.
CacheExifOnRemovedFile ==
    /\ call = Returned("cache_exif")
    /\ ret.path \in missing
    /\ entry[ret.path] # NoRow
    /\ entry[ret.path] \in exif_cache

\* The row of exif_cache for p and the mtime p has now is not JSON.
RowIsInvalid(p) ==
    /\ p \notin missing
    /\ \E r \in exif_cache :
           r.file_path = p /\ r.file_mtime = files[p].mtime /\ ~r.exif_data.valid

\* C22: when the row stored for (path, current mtime) is not valid JSON, a
\* get_cached_exif call returns None and changes neither table; the lookup
\* of extract_metadata is then a miss, and the unit goes on through the
\* fallback chain as after any miss.
InvalidJsonIsMiss ==
    [][/\ (call'.op = "get_cached_exif" /\ RowIsInvalid(ret'.path)) =>
              /\ call'.outcome = "returned"
              /\ ret'.value = None
              /\ exif_cache' = exif_cache
              /\ directory_cache' = directory_cache
              /\ file_records' = file_records
       /\ \A i \in 1..Len(units) :
              (/\ Len(units') = Len(units)
               /\ cache_exif
               /\ units[i].pc = "queued"
               /\ units'[i].pc # "queued"
               /\ RowIsInvalid(units[i].path)) =>
                  /\ units'[i].pc = "missed"
                  /\ ~units'[i].raised /\ ~units'[i].hit
                  /\ exif_cache' = exif_cache
       /\ \A i \in 1..Len(units) :
              (/\ Len(units') = Len(units)
               /\ units[i].pc = "missed"
               /\ units'[i].pc # "missed") =>
                  /\ units'[i].trace # <<>>
                  /\ units'[i].map # EmptyMap]_vars

\* C22 witness: the lookup of extract_metadata has just read a row that is
\* not JSON and the unit is on its way to the fallback chain.
MissOnInvalidJson ==
    \E i \in 1..Len(units) :
        /\ units[i].pc = "missed"
        /\ ret.op = "get_cached_exif"
        /\ ret.path = units[i].path
        /\ ret.row \in exif_cache
        /\ ~ret.row.exif_data.valid
        /\ ret.value = None

\* The rows of directory_cache for the directory.
DirRows == {r \in directory_cache : r.directory_path = Dir}

FileHashesValidated ==
    call.op = "FileHashes" =>
        (~output.raised <=>
            /\ Len(input.sha256) = Sha256Length
            /\ IsHex(input.sha256)
            /\ input.size >= 0)

\* C25: a check_duplicate call on a file that cannot be stat'ed raises: no
\* call returns a verdict for such a file, and a call that raises leaves the
\* caller without a new result and the committed rows and the pending buffer
\* as they were.
CheckDuplicateRaisesOnStatError ==
    [][call'.op = "check_duplicate" =>
          /\ call'.outcome \in {"returned", "raised"}
          /\ call'.outcome = "returned" => res'.path \notin missing
          /\ call'.outcome = "raised" =>
                 /\ missing # {}
                 /\ res' = res
                 /\ file_records' = file_records
                 /\ pending_records' = pending_records
                 /\ conn' = conn]_vars

\* C25 witness: check_duplicate has raised on a removed file, with a record
\* committed and another one waiting in the buffer.
CheckDuplicateRaised ==
    /\ call = [op |-> "check_duplicate", outcome |-> "raised"]
    /\ missing # {}
    /\ file_records # {}
    /\ pending_records # <<>>

\* C26: calculate_hashes returns whatever the perceptual hash does, with the
\* SHA-256 and the size of the bytes of the file; the perceptual hash is
\* absent when the file is not a still image, when the library is not there,
\* and when perceptual hashing raised.
PerceptualNeverFails ==
    call.op = "calculate_hashes" =>
        /\ call.outcome = "returned"
        /\ res.hashes.sha256 = Sha256(files[res.path].content)
        /\ res.hashes.size = Len(files[res.path].content)
        /\ (\/ ~IsImageFile(res.path)
            \/ ~imagehash_available
            \/ res.trace = <<"raises">>) => res.hashes.perceptual = NoHash

\* C26 witness: the library is there, the file is a still image, perceptual
\* hashing raised, and calculate_hashes returned hashes without it.
PerceptualRaisedHashesReturned ==
    /\ call = Returned("calculate_hashes")
    /\ imagehash_available
    /\ IsImageFile(res.path)
    /\ res.trace = <<"raises">>
    /\ res.hashes.perceptual = NoHash
    /\ res.hashes.sha256 = Sha256(files[res.path].content)

IsNumber(value) ==
    \/ value.type \in {"int", "float"} /\ value.parts[1].float.special = "finite"
    \/ /\ value.type = "str"
       /\ Len(value.parts) \in {1, 2}
       /\ \A i \in 1..Len(value.parts) :
              value.parts[i].numeral /\ value.parts[i].float.special = "finite"
       /\ Len(value.parts) = 2 => value.parts[2].float.num # 0

\* A date text in one of the formats of an EXIF date.
IsDate(text) == text.date /\ text.sep \in {":", "-"}

\* C28: normalisation does not raise, a numeric tag that is not a number is
\* None in the normalised metadata, and a date text that matches no format
\* is absent from it.
NormaliseNeverRaises ==
    call.op = "_normalize_exiftool_metadata" =>
        /\ ~output.raised
        /\ ~IsNumber(input.ISO) => output.ISO.absent
        /\ ~IsNumber(input.FNumber) => output.FNumber.absent
        /\ ~IsDate(input.DateTime) => output.DateTime.kind # "text"

\* The stages of a duplicate check, in the order of the code.
StageOrder ==
    <<"path_mtime_lookup", "size_query", "calculate_hashes", "sha256_compare",
      "perceptual_lookup">>

SameSize == {r \in file_records : r.file_size = Len(Candidate.content)}

\* C29: the stages a check_duplicate call went through are an initial part
\* of the order lookup by path and mtime, size query, hash computation,
\* comparison with the stored hashes, each one begun after the one before it
\* returned; and a stage that gives the verdict is the last one that
\* decides: a record of the unchanged file ends the call at the lookup, no
\* record of the size ends it with the hashes of the new file and without a
\* comparison, an equal sha256 ends it before the perceptual lookup.
StagesInOrder ==
    JustChecked =>
        /\ res.trace = SubSeq(StageOrder, 1, Len(res.trace))
        /\ Len(res.trace) \in {1, 3, 4, 5}
        /\ UnchangedRecords # {} <=> Len(res.trace) = 1
        /\ (UnchangedRecords = {} /\ SameSize = {}) <=> Len(res.trace) = 3
        /\ (Len(res.trace) > 3 /\ res.status = StatusDuplicate) => Len(res.trace) = 4

\* C29 witness: a check that went through every stage, and gave its verdict
\* at the last.
EveryStageRun == JustChecked /\ res.trace = StageOrder

StoreOrFlushReturned ==
    /\ call.outcome = "returned"
    /\ call.op \in {"store_file_record", "flush_pending_records"}

\* C30 as stated: after a store_file_record or flush_pending_records call
\* returned normally the pending buffer holds fewer than batch_size records,
\* and with batch_size 1 the buffer is empty.
BufferBelowBatchSize ==
    /\ StoreOrFlushReturned => Len(pending_records) < batch_size
    /\ batch_size = 1 => pending_records = <<>>

\* C30: with batch_size > 1 a store_file_record call that appended its
\* record and returned normally leaves fewer than batch_size records in the
\* buffer, and a flush_pending_records call that returned normally leaves
\* none; the flush a store starts when the buffer reached batch_size takes
\* the whole buffer as one batch, whose commit installs every record of it
\* and empties the buffer; with batch_size 1 each record is inserted on its
\* own and the buffer stays empty.  A store_file_record call that returns
\* without appending leaves the buffer as it was.
BufferFlushedAtBatchSize ==
    [][/\ (/\ call'.outcome = "returned"
           /\ call'.op = "store_file_record"
           /\ pending_records' # pending_records)
              => Len(pending_records') < batch_size
       /\ (call'.outcome = "returned" /\ call'.op = "flush_pending_records")
              => pending_records' = <<>>
       /\ (~conn.open /\ conn'.open /\ conn'.origin = "flush")
              => /\ batch_size > 1
                 /\ conn'.batch = pending_records'
                 /\ call'.op = "store_file_record"
                        => /\ Len(pending_records') >= batch_size
                           /\ Len(pending_records') = Len(pending_records) + 1
       /\ (conn.open /\ conn.origin = "flush" /\ call'.outcome = "returned")
              => /\ file_records' = BatchApplied(file_records, conn.batch)
                 /\ pending_records' = <<>>
       /\ (~conn.open /\ conn'.open /\ conn'.origin = "insert")
              => batch_size = 1 /\ Len(conn'.batch) = 1
       /\ batch_size = 1 => pending_records' = <<>>
       /\ (call'.op = "store_file_record" /\ call'.outcome = "returned"
               /\ pending_records' = pending_records /\ ~conn.open)
              => res.path \in missing]_vars

\* C30 witness: the store_file_record call that filled the buffer has
\* returned, the batch committed and the buffer empty.
StoreFlushedBuffer ==
    /\ call = Returned("store_file_record")
    /\ batch_size > 1
    /\ pending_records = <<>>
    /\ file_records # {}
    /\ nstores >= batch_size

\* The work units inside extract_metadata or calculate_hashes.
Executing == {i \in 1..Len(units) : Started(i)}

\* C31: a batch call has one work unit per element of its list; with
\* parallel_workers > 1 and more than one path at most parallel_workers units
\* execute at once, otherwise the units run one after the other in the order
\* of the list, each begun after the one before it was dealt with; and when
\* the call has returned every unit has finished and its outcome is taken.
PoolBounded ==
    job.op # "none" =>
        /\ Len(units) = Len(job.paths)
        /\ IF parallel_workers > 1 /\ Len(job.paths) > 1
           THEN Cardinality(Executing) <= parallel_workers
           ELSE \A i \in 1..Len(units) :
                    units[i].pc # "queued"
                        => \A j \in 1..(i - 1) : units[j].pc = "collected"
        /\ call = Returned(job.op)
               => \A i \in 1..Len(units) : units[i].pc = "collected"

\* C31 witness: every worker of the pool is busy and a unit waits.
PoolSaturated ==
    /\ parallel_workers > 1
    /\ Cardinality(Executing) = parallel_workers
    /\ \E i \in 1..Len(units) : units[i].pc = "queued"

\* What extract_metadata(p) gives on the state the batch call found, in the
\* except clause of the batch call when it raises.
MetadataOf(p) ==
    LET rows == {r \in input.exif_cache :
                    r.file_path = p /\ r.file_mtime = files[p].mtime}
        cached == {JsonLoads(r.exif_data) : r \in {q \in rows : q.exif_data.valid}}
        chain == ExtractWithFallback(p, input.readers[p].exiftool,
                                     input.readers[p].pillow)
    IN  IF cache_exif /\ p \notin missing /\ cached \ {EmptyMap} # {}
        THEN CHOOSE m \in cached : TRUE
        ELSE IF chain.raised THEN CreateMinimalMetadata(p).map
        ELSE chain.map

\* C32: the mapping a batch call returns is determined by its input list and
\* by the files, the store and the readers it found, whatever the number of
\* workers and the order in which they run and finish: the metadata of every
\* path of the list, and the hashes of every path of the list that can be
\* read; so the call with a pool returns what the sequential call returns.
SameAsSequential ==
    call = Returned(job.op) =>
        IF Extracting
        THEN results = [p \in InputPaths |-> MetadataOf(p)]
        ELSE Hashing =>
                 results = [p \in InputPaths \ missing |-> CalculateHashes(p)]

\* C32 witness: a call with a pool on the same path twice has returned, and
\* one of the two units extracted while the other was answered by the cache.
TwinUnitsDiffer ==
    /\ call = Returned("batch_extract_metadata")
    /\ parallel_workers > 1
    /\ Len(units) = 2
    /\ units[1].path = units[2].path
    /\ units[1].hit # units[2].hit

\* The calls that hash, extract or check; calculate_hashes and
\* extract_metadata are the work units of the two batch calls.
ReadingCalls == {"check_duplicate", "batch_calculate_hashes", "batch_extract_metadata"}

\* C33: a step of check_duplicate, of a batch call or of one of its work
\* units leaves the table file_records, the pending buffer and the
\* connection of the store as they are; a step of hashing or checking
\* leaves exif_cache as it is, and a step of extraction changes it only by
\* rows of the paths the call was given, added or put in the place of the
\* row of the same path and mtime.
ReadingCallsFrame ==
    [][call'.op \in ReadingCalls =>
          /\ file_records' = file_records
          /\ pending_records' = pending_records
          /\ conn' = conn
          /\ directory_cache' = directory_cache
          /\ call'.op # "batch_extract_metadata" => exif_cache' = exif_cache
          /\ \A r \in exif_cache' \ exif_cache :
                 r.file_path \in {job'.paths[i] : i \in 1..Len(job'.paths)}
          /\ \A r \in exif_cache \ exif_cache' :
                 \E w \in exif_cache' \ exif_cache :
                     w.file_path = r.file_path /\ w.file_mtime = r.file_mtime]_vars

\* C33 witness: a unit of a batch extraction has written its row, next to
\* the row of a path the call was not given, a committed record and a
\* buffered one.
RowWrittenBesideOthers ==
    /\ call.op = "batch_extract_metadata"
    /\ \E i \in 1..Len(units) :
           /\ units[i].pc \in {"finished", "collected"}
           /\ ~units[i].hit /\ ~units[i].raised
           /\ \E r \in exif_cache : r.file_path = units[i].path
    /\ \E r \in exif_cache : r.file_path \notin InputPaths
    /\ file_records # {}
    /\ pending_records # <<>>

\* C34: a connection is open only while the store operation that opened it
\* is under way: none is open after a call returned or raised; the step that
\* opens one starts its transaction on the committed table; while it is open
\* it serves the same operation and the same batch; and the step that ends
\* the operation, by commit or by error, closes it.
OwnConnection ==
    [][/\ call'.outcome # "running" => ~conn'.open
       /\ (~conn.open /\ conn'.open)
              => /\ call'.outcome = "running"
                 /\ call'.op \in {"store_file_record", "flush_pending_records"}
                 /\ conn'.work = file_records
                 /\ conn'.todo = conn'.batch
       /\ (conn.open /\ conn'.open)
              => /\ call' = call
                 /\ conn'.batch = conn.batch
                 /\ conn'.origin = conn.origin
                 /\ file_records' = file_records
       /\ (conn.open /\ ~conn'.open)
              => /\ call'.op = call.op
                 /\ call'.outcome \in {"returned", "raised"}]_vars

\* C34 witness: a flush has raised in the middle of its batch, and its
\* connection is closed.
ClosedAfterError ==
    /\ call = [op |-> "flush_pending_records", outcome |-> "raised"]
    /\ ~conn.open
    /\ pending_records # <<>>

\* The record of the batch that is stored last under its content hash.
LastOfHash(i) ==
    \A j \in (i + 1)..Len(conn.batch) :
        conn.batch[j].sha256_hash # conn.batch[i].sha256_hash

\* C35: when a committed record of file X is followed by the store of a
\* record of another file Y with the same content hash, then after the
\* commit the one row of that hash is the record stored last, no record has
\* X's path and mtime any more, and a check_duplicate of a file whose bytes
\* have the hash of a row of another path returns DUPLICATE of that path by
\* the hash comparison.
LastStoredSurvives ==
    [][/\ (conn.open /\ call'.outcome = "returned") =>
              \A x \in file_records :
                  \A i \in 1..Len(conn.batch) :
                      (/\ conn.batch[i].sha256_hash = x.sha256_hash
                       /\ conn.batch[i].source_path # x.source_path
                       /\ LastOfHash(i))
                          => /\ {r \in file_records' :
                                    r.sha256_hash = x.sha256_hash} = {conn.batch[i]}
                             /\ \A r \in file_records' :
                                    ~(/\ r.source_path = x.source_path
                                      /\ r.file_mtime = x.file_mtime)
       /\ call' = Returned("check_duplicate") =>
              \A y \in file_records' :
                  (/\ y.source_path # res'.path
                   /\ y.sha256_hash = Sha256(files'[res'.path].content))
                      => /\ res'.status = StatusDuplicate
                         /\ res'.existing_file = y.source_path
                         /\ \E k \in 1..Len(res'.trace) :
                                res'.trace[k] = "sha256_compare"]_vars

\* C36: a committed record that carries the mtime its file has now carries
\* the sha256 of the bytes the file has now, which are the bytes it has had
\* at that mtime.
HashPairedWithMtime ==
    \A r \in file_records :
        r.file_mtime = files[r.source_path].mtime
            => r.sha256_hash = Sha256(files[r.source_path].content)

StoreOnMissingFileIsSilent ==
    [][(~conn.open /\ call'.op = "store_file_record" /\ res.path \in missing)
          => /\ call' = Returned("store_file_record")
             /\ file_records' = file_records
             /\ pending_records' = pending_records
             /\ conn' = conn
             /\ \A q \in Paths \ missing :
                    CheckDuplicate(q)' = CheckDuplicate(q)]_vars

\* C38 witness: the only store_file_record call made so far was on a removed
\* file and has returned; nothing is stored, and a file with the bytes the
\* removed file had is there to be checked.
StoreSkipped ==
    /\ call = Returned("store_file_record")
    /\ nstores = 0
    /\ file_records = {}
    /\ pending_records = <<>>
    /\ \E p \in missing, q \in Paths \ missing :
           /\ files[q].content = files[p].content
           /\ CheckDuplicate(q) =
                  {Result(q, StatusNew, NoPath, "None", CalculateHashes(q), FALSE,
                          <<"path_mtime_lookup", "size_query", "calculate_hashes">>)}

\* C39: a result check_duplicate returns carries hashes; it names an existing
\* file exactly when its status is DUPLICATE or SIMILAR; it carries a
\* similarity score exactly when its status is SIMILAR, and the score is 0.9.
ResultFieldsMatchStatus ==
    JustChecked =>
        /\ res.status \in {StatusNew, StatusDuplicate, StatusSimilar}
        /\ res.hashes # NoHashes
        /\ res.hashes.sha256 \in {Sha256(c) : c \in Contents}
        /\ res.existing_file \in Paths <=> res.status \in {StatusDuplicate, StatusSimilar}
        /\ res.status = StatusNew => res.existing_file = NoPath
        /\ res.similarity_score # "None" <=> res.status = StatusSimilar
        /\ res.status = StatusSimilar => res.similarity_score = "0.9"

\* C39 witness: a SIMILAR result with its score and the candidate's hashes,
\* naming the file of a record whose bytes differ from the candidate's.
SimilarResultComplete ==
    /\ JustChecked
    /\ res.status = StatusSimilar
    /\ res.similarity_score = "0.9"
    /\ res.hashes = CalculateHashes(res.path)
    /\ \E r \in file_records :
           /\ r.source_path = res.existing_file
           /\ r.perceptual_hash = res.hashes.perceptual
           /\ r.sha256_hash # res.hashes.sha256

====
